---------------------------- MODULE Spec2Model ----------------------------
(***************************************************************************)
(* VendorWatch: the monitoring cycle (runMonitorCycle) with the fingerprint *)
(* engine, the rule engine, the narrative-generator fallbacks, the alert    *)
(* gate and the document store it writes to.                                *)
(*                                                                          *)
(* Text is a sequence of tokens: a token is a whitespace character (" ",    *)
(* "\n") or a word.  Lower-casing maps words, includes() looks for a word.  *)
(* SHA-256 is taken to be injective: a content hash is the normalized text. *)
(***************************************************************************)
EXTENDS Integers, Sequences, FiniteSets, TLC

\* ------------------------------------------------------------------ bounds
NumVendors == 2
MaxRuns == 2
MaxIterations == 3
MaxFaults == 2
MaxCancels == 1
MaxConfigChanges == 1
MaxTextLen == 3
MaxFindings == 3
MaxCandidates == 2

Vendors == 1..NumVendors

\* ------------------------------------------------------- sequence helpers
RECURSIVE SeqFilterNonEmpty(_)
SeqFilterNonEmpty(s) ==
  IF s = <<>> THEN <<>>
  ELSE IF Head(s) = <<>> THEN SeqFilterNonEmpty(Tail(s))
       ELSE <<Head(s)>> \o SeqFilterNonEmpty(Tail(s))

RECURSIVE JoinWith(_, _)
JoinWith(parts, sep) ==
  IF parts = <<>> THEN <<>>
  ELSE IF Len(parts) = 1 THEN parts[1]
       ELSE parts[1] \o sep \o JoinWith(Tail(parts), sep)

IsSpace(tok) == tok \in {" ", "\n"}

RECURSIVE TrimLeft(_)
TrimLeft(s) ==
  IF s = <<>> THEN <<>>
  ELSE IF IsSpace(Head(s)) THEN TrimLeft(Tail(s)) ELSE s

RECURSIVE TrimRight(_)
TrimRight(s) ==
  IF s = <<>> THEN <<>>
  ELSE IF IsSpace(s[Len(s)]) THEN TrimRight(SubSeq(s, 1, Len(s) - 1)) ELSE s

Trim(s) == TrimRight(TrimLeft(s))

\* String.prototype.toLowerCase on the words the model uses
LowerTok(tok) ==
  CASE tok = "Liability" -> "liability"
    [] tok = "Capped" -> "capped"
    [] tok = "EU" -> "eu"
    [] OTHER -> tok

ToLower(s) == [i \in 1..Len(s) |-> LowerTok(s[i])]

Includes(s, word) == \E i \in 1..Len(s) : s[i] = word

\* ------------------------------------------------------ fingerprint engine
\* text.replace(/\s+/g, " "): every maximal run of whitespace becomes " "
RECURSIVE CollapseWhitespace(_)
CollapseWhitespace(s) ==
  IF s = <<>> THEN <<>>
  ELSE IF IsSpace(Head(s))
       THEN <<" ">> \o CollapseWhitespace(TrimLeft(s))
       ELSE <<Head(s)>> \o CollapseWhitespace(Tail(s))

\* text.replace(/\n+/g, "\n"): every maximal run of newlines becomes "\n"
RECURSIVE CollapseNewlines(_)
CollapseNewlines(s) ==
  IF s = <<>> THEN <<>>
  ELSE IF Head(s) = "\n"
       THEN IF Len(s) > 1 /\ s[2] = "\n"
            THEN CollapseNewlines(Tail(s))
            ELSE <<"\n">> \o CollapseNewlines(Tail(s))
       ELSE <<Head(s)>> \o CollapseNewlines(Tail(s))

normalizeText(text) == CollapseNewlines(CollapseWhitespace(Trim(text)))

hashContent(text) == normalizeText(text)

\* ------------------------------------------------------- structured data
\* A structured record is a function from the keys it holds to a list of
\* facts; a fact is a text.  A single string s is the list <<s>>.
Keys == {"pricing_terms", "fee_structures", "liability_clauses",
         "indemnification_terms", "termination_terms", "renewal_terms",
         "data_retention_policies", "data_residency_locations",
         "encryption_practices", "compliance_references",
         "sla_uptime_commitments", "support_response_times",
         "data_export_rights"}

\* an optional value: undefined / null, or a value
Undefined == [def |-> FALSE]
Some(v) == [def |-> TRUE, val |-> v]

EmptyData == [k \in {} |-> <<>>]

Field(data, key) == IF key \in DOMAIN data THEN data[key] ELSE <<>>

\* rule-engine toStr: filter(Boolean).join(" ").trim().toLowerCase()
toStr(val) == ToLower(Trim(JoinWith(SeqFilterNonEmpty(val), <<" ">>)))

\* no field ever reported as changed
changedNever(oldVal, newVal) == FALSE

changed(oldVal, newVal) == toStr(oldVal) # toStr(newVal)

isEmpty(val) == toStr(val) = <<>>

\* ------------------------------------------------------------------ texts
\* Generated text (summaries, recommended actions) is a sequence of lines;
\* a line is a numbered or unnumbered fixed sentence.  "" is <<>>.
Line(n, text) == [n |-> n, text |-> text]
Lit(text) == <<Line(0, text)>>

Rule(type, severity, summary, action) ==
  [type |-> type, severity |-> severity, summary |-> Lit(summary),
   recommendedAction |-> Lit(action)]

\* a removed compliance reference rated like a changed one
runRuleEngineNoRemoval(oldData, newData) ==
  LET old_ == IF oldData.def THEN oldData.val ELSE EmptyData
      new_ == IF newData.def THEN newData.val ELSE EmptyData
      ch(k) == changed(Field(old_, k), Field(new_, k))
  IN  (IF ch("pricing_terms") \/ ch("fee_structures")
       THEN <<Rule("financial", "medium", "rule.pricing", "action.pricing")>> ELSE <<>>)
   \o (IF ch("liability_clauses")
       THEN <<Rule("legal", "medium", "rule.liability", "action.liability")>> ELSE <<>>)
   \o (IF ch("termination_terms")
       THEN <<Rule("legal", "medium", "rule.termination", "action.termination")>> ELSE <<>>)
   \o (IF ch("indemnification_terms")
       THEN <<Rule("legal", "medium", "rule.indemnification", "action.indemnification")>> ELSE <<>>)
   \o (IF ch("data_residency_locations")
       THEN <<Rule("security", "high", "rule.residency", "action.residency")>> ELSE <<>>)
   \o (IF ch("compliance_references")
       THEN <<Rule("security", "medium", "rule.compliance",
                   "action.compliance")>> ELSE <<>>)
   \o (IF ch("data_retention_policies")
       THEN <<Rule("security", "medium", "rule.retention", "action.retention")>> ELSE <<>>)
   \o (IF ch("sla_uptime_commitments")
       THEN <<Rule("operational", "medium", "rule.sla", "action.sla")>> ELSE <<>>)
   \o (IF ch("support_response_times")
       THEN <<Rule("operational", "low", "rule.support", "action.support")>> ELSE <<>>)

runRuleEngine(oldData, newData) ==
  LET old_ == IF oldData.def THEN oldData.val ELSE EmptyData
      new_ == IF newData.def THEN newData.val ELSE EmptyData
      ch(k) == changed(Field(old_, k), Field(new_, k))
      removed == isEmpty(Field(new_, "compliance_references"))
                 /\ ~isEmpty(Field(old_, "compliance_references"))
  IN  (IF ch("pricing_terms") \/ ch("fee_structures")
       THEN <<Rule("financial", "medium", "rule.pricing", "action.pricing")>> ELSE <<>>)
   \o (IF ch("liability_clauses")
       THEN <<Rule("legal", "medium", "rule.liability", "action.liability")>> ELSE <<>>)
   \o (IF ch("termination_terms")
       THEN <<Rule("legal", "medium", "rule.termination", "action.termination")>> ELSE <<>>)
   \o (IF ch("indemnification_terms")
       THEN <<Rule("legal", "medium", "rule.indemnification", "action.indemnification")>> ELSE <<>>)
   \o (IF ch("data_residency_locations")
       THEN <<Rule("security", "high", "rule.residency", "action.residency")>> ELSE <<>>)
   \o (IF ch("compliance_references")
       THEN <<Rule("security", IF removed THEN "high" ELSE "medium",
                   IF removed THEN "rule.compliance.removed" ELSE "rule.compliance",
                   "action.compliance")>> ELSE <<>>)
   \o (IF ch("data_retention_policies")
       THEN <<Rule("security", "medium", "rule.retention", "action.retention")>> ELSE <<>>)
   \o (IF ch("sla_uptime_commitments")
       THEN <<Rule("operational", "medium", "rule.sla", "action.sla")>> ELSE <<>>)
   \o (IF ch("support_response_times")
       THEN <<Rule("operational", "low", "rule.support", "action.support")>> ELSE <<>>)

\* the last rule result surfaced instead of the first
ruleResultToRiskEventLast(ruleResults, fallbackSummary, fallbackAction) ==
  IF Len(ruleResults) > 0 THEN ruleResults[Len(ruleResults)]
  ELSE [type |-> "operational", severity |-> "low",
        summary |-> fallbackSummary, recommendedAction |-> fallbackAction]

ruleResultToRiskEvent(ruleResults, fallbackSummary, fallbackAction) ==
  IF Len(ruleResults) > 0 THEN ruleResults[1]
  ELSE [type |-> "operational", severity |-> "low",
        summary |-> fallbackSummary, recommendedAction |-> fallbackAction]


\* ---------------------------------------------------- relevance of facts
KEEP_KEYWORDS == {"price", "pricing", "fee", "charge", "billing", "subscription",
  "cost", "rate", "liability", "indemnify", "indemnification", "damages",
  "governing law", "arbitration", "termination", "renewal", "notice", "data",
  "encryption", "security", "retention", "breach", "incident", "residency",
  "subprocessors", "compliance", "gdpr", "soc", "iso", "sla", "uptime",
  "availability", "downtime", "support", "response time", "resolution time",
  "service level", "export", "portability", "termination fee", "cancellation",
  "contract length"}

REMOVE_KEYWORDS == {"budget", "expenditure", "income statement", "internal report",
  "staffing", "payroll", "audit expense", "accounting summary",
  "government report", "annual financials"}

SkipKeys == {"summary", "rawText", "extractedText"}

\* toArray: the non-blank facts of a field
toArray(val) == SelectSeq(val, LAMBDA x : Trim(x) # <<>>)

isRelevant(entry) ==
  LET lower == ToLower(entry)
  IN  IF \E kw \in REMOVE_KEYWORDS : Includes(lower, kw) THEN FALSE
      ELSE \E kw \in KEEP_KEYWORDS : Includes(lower, kw)

\* keeps every key that holds a fact; a key whose facts are all irrelevant
\* is kept with the empty list
filterStructuredData(data) ==
  LET kept == {k \in DOMAIN data : k \notin SkipKeys /\ toArray(data[k]) # <<>>}
  IN  [k \in kept |-> SelectSeq(toArray(data[k]), isRelevant)]

\* ---------------------------------------------------- hallucination guard
LEGAL_KEYWORDS == {"liability", "indemnif", "terms of service",
  "terms and conditions", "agreement", "privacy policy", "subscription",
  "governing law", "arbitration", "limitation of liability", "data retention",
  "sla", "uptime", "gdpr", "soc 2", "iso 27001"}

GuardMinFields == 4
GuardTextChars == 12000

GuardWordChars == 9

\* a URL is its host and the segments of its path: the bare root has none,
\* /terms/ is <<"terms", "">>; the host "" stands for a string that is not
\* a URL
Url(host, path) == [host |-> host, path |-> path]

\* pathname.replace(/\/$/, "") || "/" is "/"
isHomepage(url) ==
  IF url.host = "" THEN FALSE
  ELSE LET path == IF url.path # <<>> /\ url.path[Len(url.path)] = ""
                   THEN SubSeq(url.path, 1, Len(url.path) - 1)
                   ELSE url.path
       IN  path = <<>>

\* the characters of a word of a page: "pad" is filler as long as the
\* guard's window, "padShort" leaves room for two words after it
PageTokChars(tok) ==
  CASE tok = "pad" -> GuardTextChars
    [] tok = "padShort" -> GuardTextChars - 2 * GuardWordChars
    [] IsSpace(tok) -> 1
    [] OTHER -> GuardWordChars

\* text.slice(0, n): the words that lie within the first n characters; a
\* word cut by the end of the slice holds no keyword any more
RECURSIVE SliceChars(_, _)
SliceChars(s, n) ==
  IF s = <<>> \/ PageTokChars(Head(s)) > n THEN <<>>
  ELSE <<Head(s)>> \o SliceChars(Tail(s), n - PageTokChars(Head(s)))

\* the keywords that occur inside a lower-case word
KeywordsInTok(tok) ==
  CASE tok = "translate" -> {"sla"}
    [] tok = "indemnification" -> {"indemnif"}
    [] tok = "limitation of liability" -> {"limitation of liability", "liability"}
    [] OTHER -> {tok}

\* text.includes(kw)
IncludesKeyword(s, kw) == \E i \in 1..Len(s) : kw \in KeywordsInTok(s[i])

\* the guard applied to every source URL, the bare root or not
looksHallucinatedAnyPage(data, sourceUrl, extractedText) ==
  LET fieldCount == Cardinality(DOMAIN data \ SkipKeys)
      text == ToLower(SliceChars(extractedText, GuardTextChars))
  IN  IF fieldCount < GuardMinFields THEN FALSE
      ELSE ~(\E kw \in LEGAL_KEYWORDS : IncludesKeyword(text, kw))

looksHallucinated(data, sourceUrl, extractedText) ==
  LET fieldCount == Cardinality(DOMAIN data \ SkipKeys)
      text == ToLower(SliceChars(extractedText, GuardTextChars))
  IN  IF fieldCount < GuardMinFields THEN FALSE
      ELSE IF ~isHomepage(sourceUrl) THEN FALSE
      ELSE ~(\E kw \in LEGAL_KEYWORDS : IncludesKeyword(text, kw))

\* --------------------------------------------------------------- URL filter
\* A URL string is the sequence of its words, each with the separator that
\* precedes it and the part of the URL it lies in: https://blog.stripe.com/a-b
\* is ("//" blog) ("." stripe) ("." com) ("/" a) ("-" b).  The empty string is
\* the empty sequence; a string new URL() rejects has no "//" in front.
UrlTok(sep, word, part) == [sep |-> sep, word |-> word, part |-> part]

PATH_ALLOW == {<<"terms">>, <<"legal">>, <<"privacy">>, <<"security">>,
  <<"trust">>, <<"sla">>, <<"uptime">>, <<"compliance">>, <<"dpa">>,
  <<"data", "processing">>, <<"subprocessor">>, <<"pricing">>, <<"fees">>,
  <<"billing">>, <<"support">>}

PATH_BLOCK == {<<"blog">>, <<"news">>, <<"press">>, <<"media">>, <<"events">>,
  <<"community">>, <<"forum">>, <<"careers">>, <<"about">>, <<"investors">>,
  <<"stories">>, <<"case", "study">>}

\* String.prototype.toLowerCase on the words of URLs
LowerWord(w) ==
  CASE w = "Terms" -> "terms"
    [] w = "Stripe" -> "stripe"
    [] OTHER -> w

\* the keyword parts a lower-case word contains, starts with and ends with
WordHas(w) ==
  CASE w = "myterms" -> {"terms"}
    [] w = "newsroom" -> {"news"}
    [] OTHER -> {w}
WordStarts(w) ==
  CASE w = "myterms" -> {}
    [] w = "newsroom" -> {"news"}
    [] OTHER -> {w}
WordEnds(w) ==
  CASE w = "myterms" -> {"terms"}
    [] w = "newsroom" -> {}
    [] OTHER -> {w}

\* toks.includes(kw) with the match starting inside word i
ContainsAt(toks, i, kw) ==
  IF Len(kw) = 1 THEN kw[1] \in WordHas(LowerWord(toks[i].word))
  ELSE /\ kw[1] \in WordEnds(LowerWord(toks[i].word))
       /\ i < Len(toks)
       /\ toks[i + 1].sep = "-"
       /\ kw[2] \in WordStarts(LowerWord(toks[i + 1].word))

\* toks.includes(sep + kw) for sep "/" or "-"
PrefixedAt(toks, i, sep, kw) ==
  /\ toks[i].sep \in (IF sep = "/" THEN {"/", "//"} ELSE {sep})
  /\ IF Len(kw) = 1 THEN kw[1] \in WordStarts(LowerWord(toks[i].word))
     ELSE /\ kw[1] = LowerWord(toks[i].word)
          /\ i < Len(toks)
          /\ toks[i + 1].sep = "-"
          /\ kw[2] \in WordStarts(LowerWord(toks[i + 1].word))

\* new URL(url) does not throw
UrlParses(url) == url # <<>> /\ url[1].sep = "//"

\* new URL(url).hostname, lower-cased, as its labels
Hostname(url) ==
  LET RECURSIVE H(_)
      H(i) == IF i > Len(url) \/ url[i].part # "host" THEN <<>>
              ELSE <<LowerWord(url[i].word)>> \o H(i + 1)
  IN  H(1)

\* the words of new URL(url).pathname
Pathname(url) ==
  LET RECURSIVE P(_)
      P(i) == IF i > Len(url) THEN <<>>
              ELSE (IF url[i].part = "path" THEN <<url[i]>> ELSE <<>>) \o P(i + 1)
  IN  P(1)

LastLabels(parts, n) == SubSeq(parts, Len(parts) - n + 1, Len(parts))

TwoPartTlds == {<<"co", "uk">>, <<"com", "au">>, <<"co", "nz">>, <<"co", "jp">>,
                <<"com", "br">>}

getRootDomain(hostname) ==
  LET stripped == IF Len(hostname) > 1 /\ hostname[1] = "www"
                  THEN Tail(hostname) ELSE hostname
  IN  IF Len(stripped) >= 3
      THEN IF LastLabels(stripped, 2) \in TwoPartTlds
           THEN LastLabels(stripped, 3)
           ELSE LastLabels(stripped, 2)
      ELSE stripped

EndsWithLabels(host, root) ==
  Len(host) > Len(root) /\ LastLabels(host, Len(root)) = root

isOnVendorDomain(vendorDomain, url) ==
  IF ~UrlParses(url) THEN FALSE
  ELSE LET host == Hostname(url)
           root == getRootDomain([i \in 1..Len(vendorDomain) |->
                                    LowerWord(vendorDomain[i])])
           urlRoot == getRootDomain(host)
       IN  IF urlRoot # root THEN FALSE
           ELSE \/ host = root
                \/ host = <<"www">> \o root
                \/ EndsWithLabels(host, root)

hasAllowedPathKeyword(url) ==
  \/ \E kw \in PATH_ALLOW : \E i \in 1..Len(url) :
        PrefixedAt(url, i, "/", kw) \/ PrefixedAt(url, i, "-", kw)
  \/ LET path == Pathname(url)
     IN  \E kw \in PATH_ALLOW : \E i \in 1..Len(path) : ContainsAt(path, i, kw)

\* no keyword blocks
hasBlockedPathKeywordNever(url) == FALSE

hasBlockedPathKeyword(url) ==
  \E kw \in PATH_BLOCK : \E i \in 1..Len(url) :
    \/ PrefixedAt(url, i, "/", kw)
    \/ PrefixedAt(url, i, "-", kw)
    \/ ContainsAt(url, i, kw)

isRelevantVendorUrl(vendorDomain, url) ==
  IF vendorDomain = <<>> \/ url = <<>> THEN FALSE
  ELSE IF ~UrlParses(url) THEN FALSE
  ELSE IF ~isOnVendorDomain(vendorDomain, url) THEN FALSE
  ELSE IF hasBlockedPathKeyword(url) THEN FALSE
  ELSE IF ~hasAllowedPathKeyword(url) THEN FALSE
  ELSE TRUE

\* ------------------------------------------------------ canonical summary
FieldOrder == <<"pricing_terms", "fee_structures", "liability_clauses",
  "indemnification_terms", "termination_terms", "renewal_terms",
  "data_retention_policies", "data_residency_locations", "encryption_practices",
  "compliance_references", "sla_uptime_commitments", "support_response_times",
  "data_export_rights">>

RECURSIVE CanonicalSections(_, _)
CanonicalSections(data, i) ==
  IF i > Len(FieldOrder) THEN <<>>
  ELSE (IF toArray(Field(data, FieldOrder[i])) # <<>>
        THEN Lit(FieldOrder[i]) ELSE <<>>) \o CanonicalSections(data, i + 1)

\* one section per populated field, in label order; "" when there is none
buildCanonicalSummary(dataOpt) ==
  IF ~dataOpt.def THEN <<>> ELSE CanonicalSections(dataOpt.val, 1)

\* ----------------------------------------------------------- risk findings
CategoryOrder == <<"liability_clauses", "indemnification_terms",
  "termination_terms", "renewal_terms", "pricing_terms", "fee_structures",
  "data_retention_policies", "data_residency_locations", "encryption_practices",
  "compliance_references", "data_export_rights", "sla_uptime_commitments",
  "support_response_times">>

CATEGORY_LABELS(key) ==
  CASE key \in {"liability_clauses", "indemnification_terms",
                "termination_terms", "renewal_terms"} -> "Legal"
    [] key \in {"pricing_terms", "fee_structures"} -> "Financial"
    [] key \in {"sla_uptime_commitments", "support_response_times"} -> "Operational"
    [] OTHER -> "Data & Security"

HIGH_CONCERN_KEYS == {"liability_clauses", "data_residency_locations",
                      "compliance_references", "indemnification_terms"}

MinFindingChars == 3

\* number of characters of a token: the one short word is "ok"
TokChars(tok) == IF IsSpace(tok) THEN 1 ELSE IF tok = "ok" THEN 2 ELSE MinFindingChars

RECURSIVE CharLen(_)
CharLen(s) == IF s = <<>> THEN 0 ELSE TokChars(Head(s)) + CharLen(Tail(s))

\* toFinding without the length test
toFindingAnyLength(raw) == Trim(raw)

\* trimmed, first letter capitalised; "" when shorter than three characters
toFinding(raw) ==
  LET s == Trim(raw)
  IN  IF s = <<>> \/ CharLen(s) < MinFindingChars THEN <<>> ELSE s

RECURSIVE FactFindings(_, _, _)
FactFindings(key, arr, i) ==
  IF i > Len(arr) THEN <<>>
  ELSE (IF toFinding(arr[i]) # <<>>
        THEN <<[category |-> CATEGORY_LABELS(key), key |-> key, gap |-> FALSE,
                concern |-> IF key \in HIGH_CONCERN_KEYS THEN "high" ELSE "medium"]>>
        ELSE <<>>) \o FactFindings(key, arr, i + 1)

RECURSIVE FindingsFrom(_, _)
FindingsFrom(data, i) ==
  IF i > Len(CategoryOrder) THEN <<>>
  ELSE LET key == CategoryOrder[i]
           arr == toArray(Field(data, key))
       IN  (IF arr = <<>>
            THEN IF key \in HIGH_CONCERN_KEYS
                 THEN <<[category |-> CATEGORY_LABELS(key), key |-> key,
                         gap |-> TRUE, concern |-> "high"]>>
                 ELSE <<>>
            ELSE FactFindings(key, arr, 1)) \o FindingsFrom(data, i + 1)

extractRiskFindings(dataOpt) ==
  IF ~dataOpt.def THEN <<>> ELSE FindingsFrom(dataOpt.val, 1)

ActionOrder == <<"Legal", "Data & Security", "Financial", "Operational">>

HasCategory(findings, cat) == \E i \in 1..Len(findings) : findings[i].category = cat

RECURSIVE ActionLines(_, _, _)
ActionLines(findings, i, n) ==
  IF i > Len(ActionOrder)
  THEN <<Line(n, "Run the monitor periodically to detect future changes.")>>
  ELSE IF HasCategory(findings, ActionOrder[i])
       THEN <<Line(n, ActionOrder[i])>> \o ActionLines(findings, i + 1, n + 1)
       ELSE ActionLines(findings, i + 1, n)

RECURSIVE RiskLines(_, _)
RiskLines(findings, i) ==
  IF i > Len(ActionOrder) THEN <<>>
  ELSE (IF HasCategory(findings, ActionOrder[i])
        THEN <<Line(0, ActionOrder[i])>> ELSE <<>>) \o RiskLines(findings, i + 1)

\* the text without its closing step
buildRecommendedActionsNoClosingStep(findings) ==
  IF Len(findings) = 0 THEN <<>>
  ELSE LET actions == ActionLines(findings, 1, 1)
       IN  Lit("Risks/Liabilities identified:") \o RiskLines(findings, 1)
           \o Lit("") \o Lit("Recommended actions:")
           \o SubSeq(actions, 1, Len(actions) - 1)

buildRecommendedActionsFromFindings(findings) ==
  IF Len(findings) = 0 THEN <<>>
  ELSE Lit("Risks/Liabilities identified:") \o RiskLines(findings, 1)
       \o Lit("") \o Lit("Recommended actions:") \o ActionLines(findings, 1, 1)


\* ------------------------------------------------------ narrative generator
Severities == {"low", "medium", "high"}

\* what the generator call yields: no client, an exception, a reply without
\* text, text that is not JSON, or a parsed object whose members may be
\* missing (Undefined) or malformed
Gen(kind, severity, type, summary, action) ==
  [kind |-> kind, severity |-> severity, type |-> type, summary |-> summary,
   recommendedAction |-> action]

MinActionChars == 80

\* characters of a generated recommended action
TextChars(t) ==
  IF t = <<>> THEN 0 ELSE IF t = Lit("ai.action.short") THEN 20 ELSE 120

\* /analysis is unavailable|detailed analysis unavailable/i
GenericPhrase(t) == t = Lit("ai.action.analysis is unavailable")

getContentChangeFallback(structuredData) ==
  LET canonical == IF structuredData.def /\ DOMAIN structuredData.val # {}
                   THEN buildCanonicalSummary(structuredData) ELSE <<>>
      actionsFromFindings ==
        buildRecommendedActionsFromFindings(extractRiskFindings(structuredData))
  IN  [severity |-> "medium", type |-> "content_change",
       summary |-> IF canonical # <<>>
                   THEN Lit("Vendor page content changed. Extracted terms:") \o canonical
                   ELSE Lit("Vendor page content changed. No linked documents found."),
       recommendedAction |->
         IF actionsFromFindings # <<>> THEN actionsFromFindings
         ELSE IF canonical # <<>> THEN Lit("Review the structured data and findings above.")
         ELSE Lit("Review the extracted content in the dashboard.")]

getInitialFallback(structuredData) ==
  LET canonical == IF structuredData.def /\ DOMAIN structuredData.val # {}
                   THEN buildCanonicalSummary(structuredData) ELSE <<>>
      actionsFromFindings ==
        buildRecommendedActionsFromFindings(extractRiskFindings(structuredData))
  IN  [severity |-> "low", type |-> "initial_scan",
       summary |-> IF canonical # <<>>
                   THEN Lit("Initial baseline established. Extracted terms:") \o canonical
                   ELSE Lit("Initial baseline established. Content has been stored."),
       recommendedAction |->
         IF actionsFromFindings # <<>> THEN actionsFromFindings
         ELSE Lit("Run the monitor periodically to detect changes.")]

\* the part analyzeInitialContent and analyzeContentChange share: everything
\* after the fallback has been computed
AnalyzeWith(fallback, defaultType, gen) ==
  IF gen.kind # "parsed" THEN fallback
  ELSE IF ~gen.severity.def \/ gen.severity.val \notin Severities THEN fallback
  ELSE LET ra == IF gen.recommendedAction.def
                 THEN gen.recommendedAction.val ELSE <<>>
           isGeneric == ra = <<>> \/ TextChars(ra) < MinActionChars \/ GenericPhrase(ra)
       IN  [severity |-> gen.severity.val,
            type |-> IF gen.type.def THEN gen.type.val ELSE defaultType,
            summary |-> IF gen.summary.def THEN gen.summary.val ELSE fallback.summary,
            recommendedAction |-> IF ra # <<>> /\ ~isGeneric
                                  THEN ra ELSE fallback.recommendedAction]

analyzeInitialContent(structuredData, gen) ==
  AnalyzeWith(getInitialFallback(structuredData), "initial_scan", gen)

analyzeContentChange(structuredData, gen) ==
  AnalyzeWith(getContentChangeFallback(structuredData), "content_change", gen)

\* --------------------------------------------------------------- alert gate
DefaultAlertSeverities == {"medium", "high"}

\* ALERT_SEVERITIES: the recognised severities of the list, the default when
\* the variable is unset or holds none
parseEnvSeverities(envList) ==
  IF envList \cap Severities # {} THEN envList \cap Severities
  ELSE DefaultAlertSeverities

getAlertSeverities(override, envList) ==
  IF ~override.def THEN parseEnvSeverities(envList) ELSE override.val

\* the severity preference not consulted
shouldSendAlertAlways(severity, override, envList) == TRUE

shouldSendAlert(severity, override, envList) ==
  severity \in getAlertSeverities(override, envList)

\* called: whether the transport is invoked; sent: the value returned
sendRiskAlert(severity, hasKey, hasTo, override, envList, transport) ==
  IF ~hasKey \/ ~hasTo THEN [called |-> FALSE, sent |-> FALSE]
  ELSE IF ~shouldSendAlert(severity, override, envList)
       THEN [called |-> FALSE, sent |-> FALSE]
  ELSE [called |-> TRUE, sent |-> transport = "ok"]

\* ------------------------------------------------------------ research mode
DEFAULT_MODE == "deep"

parseEnvMode(raw) == IF raw \in {"basic", "deep"} THEN raw ELSE DEFAULT_MODE

getResearchMode(override, raw) == IF override.def THEN override.val ELSE parseEnvMode(raw)


\* ================================================================== state
Procs == {1, 2}

VARIABLES
  cancelRequested,   \* monitor.ts: let cancelRequested
  researchOverride,  \* research-mode: let override
  alertOverride,     \* alert-preferences: let override
  snapshots,         \* the snapshots collection, in insertion order
  riskEvents,        \* the riskEvents collection, in insertion order
  pc,                \* per invocation of runMonitorCycle: the await it is at
  runId,             \* per invocation: which run of the model it is
  vendors,           \* per invocation: the vendors selected
  idx,               \* per invocation: the loop variable i
  results,           \* per invocation: results
  emitted,           \* per invocation: events the subscriber received
  loc,               \* per invocation: the locals of the vendor iteration
  cancelAt,          \* history: i when cancellation was first requested
  subThrew,          \* history: the subscriber has thrown in this invocation
  baseline,          \* history: per vendor, what the scraper and the search
                     \* returned in the pass that stored its first snapshot
  call,              \* a function of the pipeline applied on its own: its
                     \* name, its arguments and, once applied, its value
  runs, iterations, faults, cancels, configChanges   \* counters that bound the model

vars == <<cancelRequested, researchOverride, alertOverride, snapshots,
          riskEvents, pc, runId, vendors, idx, results, emitted, loc,
          cancelAt, subThrew, baseline, call, runs, iterations, faults, cancels, configChanges>>

storeVars == <<snapshots, riskEvents>>
configVars == <<researchOverride, alertOverride>>
ctlVars == <<pc, idx, results, emitted, subThrew, faults>>
cntVars == <<runs, iterations, cancels, configChanges>>
histVars == <<cancelAt, baseline, call>>

NoAnalysis == [severity |-> "", type |-> "", summary |-> <<>>,
               recommendedAction |-> <<>>, source |-> ""]

\* what sendRiskAlert read when it was called: the channel configuration,
\* the severity override and the ALERT_SEVERITIES list
NoAlertEnv == [hasKey |-> FALSE, hasTo |-> FALSE, override |-> Undefined, envList |-> {}]

\* what the narrative generator returned in this iteration: nothing yet
NoNarrative == [kind |-> "none", severity |-> Undefined]

LocInit == [vendor |-> 0, alertEnv |-> NoAlertEnv, transport |-> "", scrapeOk |-> FALSE, scrapeError |-> "", scraped |-> <<>>, searched |-> <<>>,
            alertCalled |-> FALSE, lastSnapshot |-> Undefined, extractedText |-> <<>>,
            externalSources |-> 0, pagesCrawled |-> 0, contentHash |-> Undefined,
            isDeep |-> FALSE, structured |-> Undefined, sourceUrl |-> Undefined,
            analysis |-> NoAnalysis, alertSent |-> FALSE, calls |-> {},
            storeThrew |-> FALSE, snapshotsBefore |-> 0, riskEventsBefore |-> 0,
            narrative |-> NoNarrative, extracted |-> Undefined]

\* the result without the error text
ResultWithoutError(vendorId, status, error, riskEventCreated) ==
  [vendorId |-> vendorId, status |-> status, error |-> "",
   riskEventCreated |-> riskEventCreated]

Result(vendorId, status, error, riskEventCreated) ==
  [vendorId |-> vendorId, status |-> status, error |-> error,
   riskEventCreated |-> riskEventCreated]

ProgressEvent(current, vendorId) ==
  [type |-> "progress", current |-> current, vendorId |-> vendorId, results |-> <<>>]
ResultEvent(current, res) ==
  [type |-> "result", current |-> current, vendorId |-> res.vendorId, results |-> <<res>>]
CompleteEvent(rs) ==
  [type |-> "complete", current |-> 0, vendorId |-> 0, results |-> rs]

\* the vendors collection, in the order find({}) returns it
RECURSIVE VendorList(_)
VendorList(n) == IF n = 0 THEN <<>> ELSE Append(VendorList(n - 1), n)

\* vendorIds arguments the callers pass: none, or the last vendor only

SelectVendors(vendorIds) ==
  IF vendorIds = {} THEN VendorList(NumVendors)
  ELSE SelectSeq(VendorList(NumVendors), LAMBDA v : v \in vendorIds)

SnapshotsOf(v) == SelectSeq(snapshots, LAMBDA s : s.vendorId = v)
RiskEventsOf(v) == SelectSeq(riskEvents, LAMBDA e : e.vendorId = v)

\* findOne({vendorId}, {sort: {createdAt: -1}})
LatestSnapshot(v) ==
  LET own == SnapshotsOf(v)
  IN  IF own = <<>> THEN Undefined ELSE Some(own[Len(own)])

Now == Len(snapshots) + Len(riskEvents) + 1

NoCall == [fn |-> "none", done |-> FALSE]

Init ==
  /\ cancelRequested = FALSE
  /\ researchOverride = Undefined
  /\ alertOverride = Undefined
  /\ snapshots = <<>>
  /\ riskEvents = <<>>
  /\ pc = [c \in Procs |-> "idle"]
  /\ runId = [c \in Procs |-> 0]
  /\ vendors = [c \in Procs |-> <<>>]
  /\ idx = [c \in Procs |-> 0]
  /\ results = [c \in Procs |-> <<>>]
  /\ emitted = [c \in Procs |-> <<>>]
  /\ loc = [c \in Procs |-> LocInit]
  /\ cancelAt = [c \in Procs |-> -1]
  /\ subThrew = [c \in Procs |-> FALSE]
  /\ baseline = [v \in Vendors |-> Undefined]
  /\ call = NoCall
  /\ runs = 0
  /\ iterations = 0
  /\ faults = 0
  /\ cancels = 0
  /\ configChanges = 0

\* ------------------------------------------- what the collaborators return
\* pages: without legal wording, with it, and the latter spaced differently
PageTexts == {<<"home">>, <<"home", " ", "liability">>,
              <<"home", " ", "\n", "liability">>}

ScrapeOutcomes ==
  {[success |-> FALSE, markdown |-> <<>>, error |-> m] : m \in {"Scrape failed", "timeout"}}
  \cup {[success |-> TRUE, markdown |-> t, error |-> ""] : t \in PageTexts}

CrawlOutcomes ==
  {[success |-> FALSE, markdown |-> <<>>, pagesCount |-> 0],
   [success |-> TRUE, markdown |-> <<>>, pagesCount |-> 1],
   [success |-> TRUE, markdown |-> <<"terms">>, pagesCount |-> 1]}

SearchOutcomes ==
  {[success |-> FALSE, markdown |-> <<>>, sources |-> 0],
   [success |-> TRUE, markdown |-> <<"news">>, sources |-> 1]}

PagesToken(n) == CASE n = 1 -> "(1)" [] n = 2 -> "(2)" [] OTHER -> "(3)"
CrawledMarker(n) == <<"\n", "\n", "--- CRAWLED PAGES", PagesToken(n), "---", "\n">>
SearchMarker == <<"\n", "\n", "--- EXTERNAL SEARCH (news/web) ---", "\n">>

\* facts the extractor returns
FactCap == <<"liability", " ", "capped">>
FactCapUpper == <<"Liability", " ", "Capped">>
FactUnlimited == <<"liability", " ", "unlimited">>
FactPrice == <<"pricing", " ", "monthly">>
FactRegion == <<"data", " ", "EU">>
FactSoc == <<"soc", " ", "2">>
FactNoise == <<"annual", " ", "budget">>

DataA == [k \in {"liability_clauses", "pricing_terms"} |->
            IF k = "liability_clauses" THEN <<FactCap>> ELSE <<FactPrice>>]
DataAUpper == [DataA EXCEPT !["liability_clauses"] = <<FactCapUpper>>]
DataB == [DataA EXCEPT !["liability_clauses"] = <<FactUnlimited>>]
DataRich == [k \in {"liability_clauses", "pricing_terms",
                    "data_residency_locations", "compliance_references"} |->
               CASE k = "liability_clauses" -> <<FactCap>>
                 [] k = "pricing_terms" -> <<FactPrice>>
                 [] k = "data_residency_locations" -> <<FactRegion>>
                 [] OTHER -> <<FactSoc>>]
DataNoise == [k \in {"liability_clauses"} |-> <<FactNoise>>]

ExtractorData == {DataA, DataAUpper, DataB, DataRich, DataNoise}

HomeUrl == Url("vendor.com", <<>>)
TermsUrl == Url("vendor.com", <<"terms">>)

\* extractFromUrls: it rejects, it finds nothing (no candidate, or every
\* candidate empty), or it returns the first non-empty data with its URL
ExtractionOutcomes ==
  {[kind |-> "throws", called |-> TRUE, data |-> EmptyData, sourceUrl |-> HomeUrl],
   [kind |-> "none", called |-> FALSE, data |-> EmptyData, sourceUrl |-> HomeUrl],
   [kind |-> "none", called |-> TRUE, data |-> EmptyData, sourceUrl |-> HomeUrl]}
  \cup {[kind |-> "data", called |-> TRUE, data |-> d, sourceUrl |-> u] :
          d \in ExtractorData, u \in {HomeUrl, TermsUrl}}

NoMember == Undefined
GenOutcomes ==
  {Gen(k, NoMember, NoMember, NoMember, NoMember) :
     k \in {"unconfigured", "throws", "empty", "unparsable"}}
  \cup {Gen("parsed", Some("high"), Some("legal"), Some(Lit("ai.summary")),
            Some(Lit("ai.action.long"))),
        Gen("parsed", Some("critical"), Some("legal"), Some(Lit("ai.summary")),
            Some(Lit("ai.action.long"))),
        Gen("parsed", NoMember, Some("legal"), Some(Lit("ai.summary")),
            Some(Lit("ai.action.long"))),
        Gen("parsed", Some("low"), NoMember, Some(<<>>), Some(<<>>)),
        Gen("parsed", Some("medium"), NoMember, NoMember, Some(Lit("ai.action.short")))}

EnvModes == {"", "basic"}
EnvSeverityLists == {{}, {"low"}}
TransportOutcomes == {"ok", "error", "throws"}
ModeSettings == {Some("basic"), Some("deep"), Undefined}
SeveritySettings == {{}, {"low", "medium", "high"}}


\* recommendedAction never replaced
WithFindingsActionsNever(analysis, structured) == analysis

\* recommendedAction is replaced by the findings-based text when there is one
WithFindingsActions(analysis, structured) ==
  LET findingsBasedActions ==
        buildRecommendedActionsFromFindings(extractRiskFindings(structured))
  IN  IF findingsBasedActions # <<>>
      THEN [analysis EXCEPT !.recommendedAction = findingsBasedActions]
      ELSE analysis

\* basic mode: the rule engine against the previous structured data
RulesAnalysis(prevStructured, structured, fallbackSummary, fallbackAction) ==
  LET canonicalSummary == buildCanonicalSummary(structured)
      ruleEvent == ruleResultToRiskEvent(
                     runRuleEngine(prevStructured, structured),
                     IF canonicalSummary # <<>> THEN canonicalSummary ELSE fallbackSummary,
                     fallbackAction)
  IN  [severity |-> ruleEvent.severity, type |-> ruleEvent.type,
       summary |-> IF canonicalSummary # <<>> THEN canonicalSummary ELSE ruleEvent.summary,
       recommendedAction |-> ruleEvent.recommendedAction, source |-> "rules"]

\* deep mode: the narrative generator's analysis with the canonical summary
DeepAnalysis(analysis, structured) ==
  LET canonicalSummary == buildCanonicalSummary(structured)
  IN  [severity |-> analysis.severity, type |-> analysis.type,
       summary |-> IF canonicalSummary # <<>>
                   THEN analysis.summary \o Lit("") \o canonicalSummary
                   ELSE analysis.summary,
       recommendedAction |-> analysis.recommendedAction, source |-> "ai"]

PrevStructured(l) ==
  IF l.lastSnapshot.def THEN l.lastSnapshot.val.structuredData ELSE Undefined

BasicAnalysis(l) ==
  IF l.lastSnapshot.def
  THEN RulesAnalysis(PrevStructured(l), l.structured,
         Lit("Vendor content changed. No structured field changes detected by rules."),
         Lit("Review the extracted content and structured data in the dashboard."))
  ELSE RulesAnalysis(Undefined, l.structured,
         Lit("Initial baseline established. Content stored for future comparison."),
         Lit("Run the monitor periodically to detect changes."))

\* sendRiskAlert up to its await: the configuration and the severity gate
AlertCalled(severity, hasKey, hasTo, envList) ==
  sendRiskAlert(severity, hasKey, hasTo, alertOverride, envList, "ok").called

\* ------------------------------------------------- requests from outside
requestCancellation ==
  /\ cancels < MaxCancels
  /\ cancels' = cancels + 1
  /\ cancelRequested' = TRUE
  /\ cancelAt' = [c \in Procs |->
        IF cancelAt[c] >= 0 /\ cancelRequested THEN cancelAt[c]
        ELSE IF pc[c] \in {"idle", "load", "done", "thrown"} THEN -1
        ELSE IF pc[c] = "boundary" THEN idx[c] - 1 ELSE idx[c]]
  /\ UNCHANGED <<configVars, storeVars, ctlVars, runId, vendors, loc, baseline,
                 call, runs, iterations, configChanges>>

setResearchMode(mode) ==
  /\ configChanges < MaxConfigChanges
  /\ configChanges' = configChanges + 1
  /\ researchOverride' = mode
  /\ UNCHANGED <<cancelRequested, alertOverride, storeVars, ctlVars, runId,
                 vendors, loc, histVars, runs, iterations, cancels>>

setAlertSeverities(severities) ==
  /\ configChanges < MaxConfigChanges
  /\ configChanges' = configChanges + 1
  /\ alertOverride' = Some(severities)
  /\ UNCHANGED <<cancelRequested, researchOverride, storeVars, ctlVars, runId,
                 vendors, loc, histVars, runs, iterations, cancels>>

\* --------------------------------------------------------- runMonitorCycle
\* Each action is the code between two awaits; e holds the sets the
\* collaborators' answers are drawn from.  The end of a vendor iteration and
\* the head of the next one run without an await between them; the model
\* splits them at pc = "boundary", where the iteration's locals can still be
\* read.  A request arriving at the boundary acts as one arriving just before.

\* entry: resetCancellation(), then the collections are awaited
\* runMonitorCycle without resetCancellation()
StartCycleKeepsFlag(c, vendorIds) ==
  /\ pc[c] \in {"idle", "done", "thrown"}
  /\ runs < MaxRuns
  /\ runs' = runs + 1
  /\ pc' = [pc EXCEPT ![c] = "load"]
  /\ runId' = [runId EXCEPT ![c] = runs + 1]
  /\ vendors' = [vendors EXCEPT ![c] = SelectVendors(vendorIds)]
  /\ idx' = [idx EXCEPT ![c] = 0]
  /\ results' = [results EXCEPT ![c] = <<>>]
  /\ emitted' = [emitted EXCEPT ![c] = <<>>]
  /\ loc' = [loc EXCEPT ![c] = LocInit]
  /\ cancelAt' = [cancelAt EXCEPT ![c] = -1]
  /\ subThrew' = [subThrew EXCEPT ![c] = FALSE]
  /\ UNCHANGED <<cancelRequested, configVars, storeVars, baseline, call, iterations, faults,
                 cancels, configChanges>>

StartCycle(c, vendorIds) ==
  /\ pc[c] \in {"idle", "done", "thrown"}
  /\ runs < MaxRuns
  /\ runs' = runs + 1
  /\ cancelRequested' = FALSE
  /\ pc' = [pc EXCEPT ![c] = "load"]
  /\ runId' = [runId EXCEPT ![c] = runs + 1]
  /\ vendors' = [vendors EXCEPT ![c] = SelectVendors(vendorIds)]
  /\ idx' = [idx EXCEPT ![c] = 0]
  /\ results' = [results EXCEPT ![c] = <<>>]
  /\ emitted' = [emitted EXCEPT ![c] = <<>>]
  /\ loc' = [loc EXCEPT ![c] = LocInit]
  /\ cancelAt' = [cancelAt EXCEPT ![c] = -1]
  /\ subThrew' = [subThrew EXCEPT ![c] = FALSE]
  /\ UNCHANGED <<configVars, storeVars, baseline, call, iterations, faults,
                 cancels, configChanges>>

\* a step that stays inside the invocation
Continue(c, nextPc) ==
  /\ pc' = [pc EXCEPT ![c] = nextPc]
  /\ UNCHANGED <<idx, results, emitted, subThrew, faults>>

\* an exception leaves runMonitorCycle
Throw(c, rs, bySubscriber) ==
  /\ faults < MaxFaults
  /\ faults' = faults + 1
  /\ pc' = [pc EXCEPT ![c] = "thrown"]
  /\ results' = [results EXCEPT ![c] = rs]
  /\ subThrew' = [subThrew EXCEPT ![c] = @ \/ bySubscriber]
  /\ UNCHANGED <<idx, emitted>>

\* the collections and the vendor list arrive, or the database call rejects
LoadVendors(c) ==
  /\ pc[c] = "load"
  /\ \/ Continue(c, "boundary")
     \/ Throw(c, results[c], FALSE)
  /\ UNCHANGED <<cancelRequested, configVars, storeVars, runId, vendors, loc,
                 histVars, cntVars>>

\* the cancellation flag never read
LoopEndsAtLastVendor(c) == idx[c] >= Len(vendors[c])

\* the loop ends: i < vendors.length fails, or if (cancelRequested)
LoopEnds(c) == idx[c] >= Len(vendors[c]) \/ cancelRequested

\* loop head: the bound, the cancellation flag, the progress event, and the
\* call of crawlVendor
NextVendor(c, e) ==
  /\ pc[c] = "boundary"
  /\ IF LoopEnds(c)
     THEN /\ \/ /\ emitted' = [emitted EXCEPT ![c] = Append(@, CompleteEvent(results[c]))]
                /\ pc' = [pc EXCEPT ![c] = "done"]
                /\ UNCHANGED <<idx, results, subThrew, faults>>
             \/ e.subscriberThrows /\ Throw(c, results[c], TRUE)
          /\ loc' = [loc EXCEPT ![c] = LocInit]
          /\ UNCHANGED iterations
     ELSE /\ iterations < MaxIterations
          /\ iterations' = iterations + 1
          /\ \/ /\ emitted' = [emitted EXCEPT ![c] =
                                 Append(@, ProgressEvent(idx[c], vendors[c][idx[c] + 1]))]
                /\ pc' = [pc EXCEPT ![c] = "scrape"]
                /\ loc' = [loc EXCEPT ![c] =
                     [LocInit EXCEPT !.vendor = vendors[c][idx[c] + 1],
                                     !.calls = {"scraper"},
                                     !.snapshotsBefore = Len(SnapshotsOf(vendors[c][idx[c] + 1])),
                                     !.riskEventsBefore = Len(RiskEventsOf(vendors[c][idx[c] + 1]))]]
                /\ UNCHANGED <<idx, results, subThrew, faults>>
             \/ /\ e.subscriberThrows /\ Throw(c, results[c], TRUE)
                /\ loc' = [loc EXCEPT ![c] = LocInit]
  /\ UNCHANGED <<cancelRequested, configVars, storeVars, runId, vendors,
                 histVars, runs, cancels, configChanges>>

\* catch (err): push an error result and report it; a subscriber that throws
\* here ends the invocation.  spent: the exceptions that led here.
CatchBlock(c, e, rs, message, spent, bySubscriber) ==
  LET err == Result(loc[c].vendor, "error", message, FALSE)
  IN  \/ /\ results' = [results EXCEPT ![c] = Append(rs, err)]
         /\ emitted' = [emitted EXCEPT ![c] = Append(@, ResultEvent(idx[c] + 1, err))]
         /\ pc' = [pc EXCEPT ![c] = "boundary"]
         /\ idx' = [idx EXCEPT ![c] = @ + 1]
         /\ faults' = faults + spent
         /\ subThrew' = [subThrew EXCEPT ![c] = @ \/ bySubscriber]
      \/ /\ e.subscriberThrows
         /\ faults + spent < MaxFaults
         /\ faults' = faults + spent + 1
         /\ results' = [results EXCEPT ![c] = Append(rs, err)]
         /\ pc' = [pc EXCEPT ![c] = "thrown"]
         /\ subThrew' = [subThrew EXCEPT ![c] = TRUE]
         /\ UNCHANGED <<idx, emitted>>

\* a store call rejects inside the try
StoreThrows(c, e) ==
  /\ e.storeThrows
  /\ faults < MaxFaults
  /\ CatchBlock(c, e, results[c], "store failed", 1, FALSE)

\* the result pushed but not reported
EndIterationWithoutEvent(c, e, res) ==
  /\ results' = [results EXCEPT ![c] = Append(@, res)]
  /\ pc' = [pc EXCEPT ![c] = "boundary"]
  /\ idx' = [idx EXCEPT ![c] = @ + 1]
  /\ UNCHANGED <<emitted, subThrew, faults>>

\* results.push(res); onProgress(result); continue -- inside the try
EndIteration(c, e, res) ==
  \/ /\ results' = [results EXCEPT ![c] = Append(@, res)]
     /\ emitted' = [emitted EXCEPT ![c] = Append(@, ResultEvent(idx[c] + 1, res))]
     /\ pc' = [pc EXCEPT ![c] = "boundary"]
     /\ idx' = [idx EXCEPT ![c] = @ + 1]
     /\ UNCHANGED <<subThrew, faults>>
  \/ /\ e.subscriberThrows
     /\ faults < MaxFaults
     /\ CatchBlock(c, e, Append(results[c], res), "subscriber failed", 1, TRUE)

\* ------------------------------------------------------ the vendor iteration
RestVars == <<cancelRequested, configVars, runId, vendors, cancelAt, call, cntVars>>


\* crawlVendor resolves
ScrapeDone(c, e) ==
  /\ pc[c] = "scrape"
  /\ \E out \in e.scrapes :
       IF ~out.success
       THEN /\ EndIteration(c, e, Result(loc[c].vendor, "error", out.error, FALSE))
            /\ loc' = [loc EXCEPT ![c].scrapeError = out.error]
       ELSE /\ loc' = [loc EXCEPT ![c].scrapeOk = TRUE,
                                  ![c].scraped = out.markdown,
                                  ![c].extractedText = out.markdown,
                                  ![c].calls = @ \cup {"findOne"}]
            /\ Continue(c, "lookup")
  /\ UNCHANGED <<storeVars, baseline, RestVars>>

\* snapshotsCol.findOne resolves or rejects
LookupDone(c, e) ==
  /\ pc[c] = "lookup"
  /\ \/ /\ loc' = [loc EXCEPT ![c].storeThrew = TRUE]
        /\ StoreThrows(c, e)
     \/ LET last == LatestSnapshot(loc[c].vendor)
        IN  /\ loc' = [loc EXCEPT ![c].lastSnapshot = last,
                         ![c].calls = @ \cup {IF last.def THEN "search" ELSE "crawler"}]
            /\ Continue(c, IF last.def THEN "search" ELSE "crawl")
  /\ UNCHANGED <<storeVars, baseline, RestVars>>

\* crawlVendorSite resolves or rejects (first snapshot only)
CrawlDone(c, e) ==
  /\ pc[c] = "crawl"
  /\ \E out \in e.crawls, rejects \in BOOLEAN :
       LET found == ~rejects /\ out.success /\ out.markdown # <<>>
       IN  loc' = [loc EXCEPT
             ![c].extractedText =
                IF found THEN @ \o CrawledMarker(out.pagesCount) \o out.markdown ELSE @,
             ![c].pagesCrawled = IF found THEN out.pagesCount ELSE @,
             ![c].calls = @ \cup {"search"}]
  /\ Continue(c, "search")
  /\ UNCHANGED <<storeVars, baseline, RestVars>>

\* the fingerprints never compared
SameFingerprintNever(lastSnapshot, contentHash) == FALSE

\* if (lastSnapshot.contentHash === contentHash), after if (!lastSnapshot)
SameFingerprint(lastSnapshot, contentHash) ==
  lastSnapshot.def /\ lastSnapshot.val.contentHash = contentHash

\* searchVendorNews resolves or rejects; the fingerprint, the research mode
\* and the branch on the last snapshot follow without an await
SearchDone(c, e) ==
  /\ pc[c] = "search"
  /\ \E out \in e.searches, rejects \in BOOLEAN, envMode \in e.envModes :
       LET found == ~rejects /\ out.success /\ out.markdown # <<>>
           text == IF found THEN loc[c].extractedText \o SearchMarker \o out.markdown
                   ELSE loc[c].extractedText
           contentHash == hashContent(text)
           l1 == [loc[c] EXCEPT
                    !.searched = IF found THEN out.markdown ELSE <<>>,
                    !.extractedText = text,
                    !.externalSources = IF found THEN out.sources ELSE 0,
                    !.contentHash = Some(contentHash),
                    !.isDeep = getResearchMode(researchOverride, envMode) = "deep"]
       IN  IF SameFingerprint(loc[c].lastSnapshot, contentHash)
           THEN /\ loc' = [loc EXCEPT ![c] = l1]
                /\ EndIteration(c, e, Result(loc[c].vendor, "unchanged", "", FALSE))
           ELSE /\ loc' = [loc EXCEPT ![c] = [l1 EXCEPT !.calls = @ \cup {"extractFromUrls"}]]
                /\ Continue(c, "extract")
  /\ UNCHANGED <<storeVars, baseline, RestVars>>

\* extractFromUrls resolves or rejects; the guard and the fact filter decide
\* what is kept, then snapshotsCol.insertOne is called
ExtractDone(c, e) ==
  /\ pc[c] = "extract"
  /\ \E ex \in e.extractions :
       LET keep == /\ ex.kind = "data"
                   /\ DOMAIN ex.data # {}
                   /\ ~looksHallucinated(ex.data, ex.sourceUrl, loc[c].extractedText)
       IN  loc' = [loc EXCEPT
             ![c].structured = IF keep THEN Some(filterStructuredData(ex.data))
                               ELSE Undefined,
             ![c].sourceUrl = IF keep THEN Some(ex.sourceUrl) ELSE Undefined,
             ![c].extracted = IF ex.kind = "data"
                              THEN Some([data |-> ex.data, sourceUrl |-> ex.sourceUrl])
                              ELSE Undefined,
             ![c].calls = @ \cup (IF ex.called THEN {"extractor"} ELSE {})
                            \cup {"insertSnapshot"}]
  /\ Continue(c, "saveSnapshot")
  /\ UNCHANGED <<storeVars, baseline, RestVars>>

\* the snapshot stored under another vendor's id
SnapshotDocOtherVendor(l, run) ==
  [vendorId |-> 0, contentHash |-> l.contentHash.val,
   structuredData |-> l.structured, run |-> run, createdAt |-> Now]

\* the document passed to snapshotsCol.insertOne
SnapshotDoc(l, run) ==
  [vendorId |-> l.vendor, contentHash |-> l.contentHash.val,
   structuredData |-> l.structured, run |-> run, createdAt |-> Now]

\* snapshotsCol.insertOne resolves or rejects; in basic mode the rules run
\* and sendRiskAlert is called, in deep mode the narrative generator is called
SaveSnapshotDone(c, e) ==
  /\ pc[c] = "saveSnapshot"
  /\ \/ /\ loc' = [loc EXCEPT ![c].storeThrew = TRUE]
        /\ StoreThrows(c, e)
        /\ UNCHANGED snapshots
     \/ /\ snapshots' = Append(snapshots, SnapshotDoc(loc[c], runId[c]))
        /\ IF loc[c].isDeep
           THEN /\ loc' = [loc EXCEPT ![c].calls = @ \cup {"narrative"}]
                /\ Continue(c, "analyze")
           ELSE \E channel \in e.channels, envList \in e.envSeverities :
                  LET a == WithFindingsActions(BasicAnalysis(loc[c]), loc[c].structured)
                      called == AlertCalled(a.severity, channel.hasKey, channel.hasTo, envList)
                  IN  /\ loc' = [loc EXCEPT
                           ![c].analysis = a,
                           ![c].alertEnv = [hasKey |-> channel.hasKey, hasTo |-> channel.hasTo,
                                            override |-> alertOverride, envList |-> envList],
                           ![c].alertCalled = called,
                           ![c].calls = @ \cup {"sendRiskAlert"}
                                          \cup (IF called THEN {"transport"} ELSE {})]
                      /\ Continue(c, "alert")
  /\ UNCHANGED <<riskEvents, baseline, RestVars>>

\* analyzeInitialContent / analyzeContentChange resolves (it never rejects);
\* sendRiskAlert is called
AnalyzeDone(c, e) ==
  /\ pc[c] = "analyze"
  /\ \E gen \in e.gens, channel \in e.channels, envList \in e.envSeverities :
       LET analysis == IF loc[c].lastSnapshot.def
                       THEN analyzeContentChange(loc[c].structured, gen)
                       ELSE analyzeInitialContent(loc[c].structured, gen)
           a == WithFindingsActions(DeepAnalysis(analysis, loc[c].structured),
                                    loc[c].structured)
           called == AlertCalled(a.severity, channel.hasKey, channel.hasTo, envList)
       IN  loc' = [loc EXCEPT
             ![c].analysis = a,
             ![c].narrative = [kind |-> gen.kind, severity |-> gen.severity],
             ![c].alertEnv = [hasKey |-> channel.hasKey, hasTo |-> channel.hasTo,
                              override |-> alertOverride, envList |-> envList],
             ![c].alertCalled = called,
             ![c].calls = @ \cup {"sendRiskAlert"}
                            \cup (IF called THEN {"transport"} ELSE {})]
  /\ Continue(c, "alert")
  /\ UNCHANGED <<storeVars, baseline, RestVars>>

\* sendRiskAlert resolves (it never rejects); riskEventsCol.insertOne is called
AlertDone(c, e) ==
  /\ pc[c] = "alert"
  /\ \E transport \in e.transports :
       loc' = [loc EXCEPT
         ![c].transport = IF loc[c].alertCalled THEN transport ELSE "",
         ![c].alertSent = loc[c].alertCalled /\ transport = "ok",
         ![c].calls = @ \cup {"insertRiskEvent"}]
  /\ Continue(c, "saveEvent")
  /\ UNCHANGED <<storeVars, baseline, RestVars>>

\* the document passed to riskEventsCol.insertOne
RiskEventDoc(l, run) ==
  [vendorId |-> l.vendor, severity |-> l.analysis.severity,
   type |-> l.analysis.type, summary |-> l.analysis.summary,
   recommendedAction |-> l.analysis.recommendedAction,
   structuredFindings |-> l.structured,
   source |-> l.analysis.source, alertSent |-> l.alertSent,
   run |-> run, createdAt |-> Now]

\* every stored vendor reported as changed
StoredStatusChanged(lastSnapshot) == "changed"

\* status of a vendor whose snapshot and risk event were stored
StoredStatus(lastSnapshot) ==
  IF lastSnapshot.def THEN "changed" ELSE "first_snapshot"

\* riskEventsCol.insertOne resolves or rejects; the result is pushed
SaveEventDone(c, e) ==
  /\ pc[c] = "saveEvent"
  /\ \/ /\ StoreThrows(c, e)
        /\ loc' = [loc EXCEPT ![c].storeThrew = TRUE]
        /\ UNCHANGED <<riskEvents, baseline>>
     \/ /\ riskEvents' = Append(riskEvents, RiskEventDoc(loc[c], runId[c]))
        /\ EndIteration(c, e, Result(loc[c].vendor, StoredStatus(loc[c].lastSnapshot),
                                     "", TRUE))
        /\ baseline' = IF loc[c].lastSnapshot.def THEN baseline
                       ELSE [baseline EXCEPT ![loc[c].vendor] =
                               Some([scraped |-> loc[c].scraped,
                                     searched |-> loc[c].searched])]
        /\ UNCHANGED loc
  /\ UNCHANGED <<snapshots, RestVars>>

\* ---------------------------------------------------------- specification
Cycle(c, e) ==
  \/ \E vendorIds \in e.filters : StartCycle(c, vendorIds)
  \/ LoadVendors(c)
  \/ NextVendor(c, e)
  \/ ScrapeDone(c, e)
  \/ LookupDone(c, e)
  \/ CrawlDone(c, e)
  \/ SearchDone(c, e)
  \/ ExtractDone(c, e)
  \/ SaveSnapshotDone(c, e)
  \/ AnalyzeDone(c, e)
  \/ AlertDone(c, e)
  \/ SaveEventDone(c, e)

Configure ==
  \/ \E mode \in ModeSettings : setResearchMode(mode)
  \/ \E severities \in SeveritySettings : setAlertSeverities(severities)

Channels == {[hasKey |-> TRUE, hasTo |-> TRUE], [hasKey |-> TRUE, hasTo |-> FALSE],
             [hasKey |-> FALSE, hasTo |-> TRUE]}

\* the whole cycle over every vendor, with cancellation, configuration
\* changes, store failures and a throwing subscriber; the content varies little
ControlEnv ==
  [filters |-> {{}},
   scrapes |-> {o \in ScrapeOutcomes : o.markdown \in {<<>>, <<"home">>}},
   crawls |-> {o \in CrawlOutcomes : ~o.success \/ o.markdown # <<>>},
   searches |-> {o \in SearchOutcomes : ~o.success},
   envModes |-> {""},
   extractions |-> {x \in ExtractionOutcomes : x.kind = "none" /\ x.called},
   gens |-> {g \in GenOutcomes : g.kind = "unconfigured"},
   channels |-> {ch \in Channels : ch.hasTo},
   envSeverities |-> {{}},
   transports |-> TransportOutcomes,
   storeThrows |-> TRUE,
   subscriberThrows |-> TRUE]

Next ==
  \/ Cycle(1, ControlEnv)
  \/ requestCancellation
  \/ Configure

Spec == Init /\ [][Next]_vars

\* one vendor, run after run: what the scraper, the crawler and the search
\* return varies, in both research modes
ContentEnv ==
  [filters |-> {{1}},
   scrapes |-> {o \in ScrapeOutcomes : o.markdown # <<"home", " ", "\n", "liability">>},
   crawls |-> CrawlOutcomes,
   searches |-> SearchOutcomes,
   envModes |-> EnvModes,
   extractions |-> {x \in ExtractionOutcomes :
                      x.kind # "data" \/ (x.data = DataA /\ x.sourceUrl = TermsUrl)},
   gens |-> {g \in GenOutcomes : g.kind \in {"unconfigured", "throws"}},
   channels |-> {[hasKey |-> TRUE, hasTo |-> TRUE]},
   envSeverities |-> EnvSeverityLists,
   transports |-> TransportOutcomes,
   storeThrows |-> FALSE,
   subscriberThrows |-> FALSE]

NextContent == Cycle(1, ContentEnv)

SpecContent == Init /\ [][NextContent]_vars

\* one vendor, run after run: what the extractor and the narrative generator
\* return varies, in both research modes
RulesEnv ==
  [filters |-> {{1}},
   scrapes |-> {o \in ScrapeOutcomes :
                  o.success /\ o.markdown # <<"home", " ", "\n", "liability">>},
   crawls |-> {o \in CrawlOutcomes : ~o.success},
   searches |-> {o \in SearchOutcomes : ~o.success},
   envModes |-> EnvModes,
   extractions |-> {x \in ExtractionOutcomes :
                      \/ x.kind = "none" /\ x.called
                      \/ /\ x.kind = "data"
                         /\ x.data \in {DataA, DataAUpper, DataB, DataRich}
                         /\ x.sourceUrl = TermsUrl},
   gens |-> GenOutcomes,
   channels |-> {[hasKey |-> TRUE, hasTo |-> TRUE]},
   envSeverities |-> {{}},
   transports |-> {"ok"},
   storeThrows |-> FALSE,
   subscriberThrows |-> FALSE]

NextRules == Cycle(1, RulesEnv)

SpecRules == Init /\ [][NextRules]_vars

\* one vendor whose page holds no legal wording: the extractor returns
\* nothing, rich data for the bare root or for /terms, or a record with one
\* field (data residency, which a rule tracks, or encryption, which none
\* does); the search fails or returns news with legal wording
DataResidency == [k \in {"data_residency_locations"} |-> <<FactRegion>>]
DataEncryption == [k \in {"encryption_practices"} |-> <<<<"encryption", " ", "aes">>>>]

SearchLegalNews == [success |-> TRUE, markdown |-> <<"liability">>, sources |-> 1]

SearchEnv ==
  [filters |-> {{1}},
   scrapes |-> {o \in ScrapeOutcomes : o.success /\ o.markdown \in {<<>>, <<"home">>}},
   crawls |-> {o \in CrawlOutcomes : ~o.success},
   searches |-> {o \in SearchOutcomes : ~o.success} \cup {SearchLegalNews},
   envModes |-> EnvModes,
   extractions |-> {x \in ExtractionOutcomes :
                      \/ x.kind = "data" /\ x.data = DataRich
                      \/ x.kind = "none" /\ x.called}
                   \cup {[kind |-> "data", called |-> TRUE, data |-> d,
                           sourceUrl |-> TermsUrl] :
                            d \in {DataResidency, DataEncryption}},
   gens |-> {g \in GenOutcomes : g.kind = "unconfigured"},
   channels |-> {[hasKey |-> TRUE, hasTo |-> TRUE]},
   envSeverities |-> {{}},
   transports |-> {"ok"},
   storeThrows |-> FALSE,
   subscriberThrows |-> FALSE]

NextSearch == Cycle(1, SearchEnv)

SpecSearch == Init /\ [][NextSearch]_vars

\* two cycles that may overlap, each over both vendors, and cancellation
\* requests; every vendor is reachable or not, the stores accept the writes
OverlapEnv ==
  [filters |-> {{}},
   scrapes |-> {o \in ScrapeOutcomes : o.markdown \in {<<>>, <<"home">>}},
   crawls |-> {o \in CrawlOutcomes : ~o.success},
   searches |-> {o \in SearchOutcomes : ~o.success},
   envModes |-> {""},
   extractions |-> {x \in ExtractionOutcomes : x.kind = "none" /\ x.called},
   gens |-> {g \in GenOutcomes : g.kind = "unconfigured"},
   channels |-> {[hasKey |-> TRUE, hasTo |-> TRUE]},
   envSeverities |-> {{}},
   transports |-> {"ok"},
   storeThrows |-> FALSE,
   subscriberThrows |-> FALSE]

NextOverlap ==
  \/ Cycle(1, OverlapEnv)
  \/ Cycle(2, OverlapEnv)
  \/ requestCancellation

SpecOverlap == Init /\ [][NextOverlap]_vars

\* ------------------------------------------- functions applied on their own
\* The pure functions of the pipeline are applied to arguments drawn at the
\* start; the cycle does not run.
CycleVars == <<cancelRequested, researchOverride, alertOverride, snapshots,
               riskEvents, pc, runId, vendors, idx, results, emitted, loc,
               cancelAt, subThrew, baseline, runs, iterations, faults, cancels,
               configChanges>>

\* field values: two different facts, the first again in upper case, no fact
RuleValues == {<<FactCap>>, <<FactCapUpper>>, <<FactUnlimited>>, <<>>}

OneField(k, v) == [x \in {k} |-> v]
TwoFields(k1, v1, k2, v2) == [x \in {k1, k2} |-> IF x = k1 THEN v1 ELSE v2]

\* structured data: null, {}, one field, and some pairs of fields
RuleData ==
  {Undefined, Some(EmptyData)}
  \cup {Some(OneField(k, v)) : k \in Keys, v \in RuleValues}
  \cup {Some(TwoFields("pricing_terms", <<FactPrice>>, k, <<FactCap>>)) :
          k \in {"fee_structures", "liability_clauses", "renewal_terms"}}
  \cup {Some(TwoFields("support_response_times", <<FactCap>>, k, <<FactCap>>)) :
          k \in {"data_residency_locations", "compliance_references",
                 "data_export_rights"}}

RuleEngineCalls ==
  {[fn |-> "runRuleEngine", done |-> FALSE, oldData |-> o, newData |-> n] :
     o \in RuleData, n \in RuleData}

\* texts of at most MaxTextLen characters over two letters, the space and
\* the newline
TextTokens == {"a", "b", " ", "\n"}
Texts == UNION {[1..k -> TextTokens] : k \in 0..MaxTextLen}

HashCall(x, y) == [fn |-> "hashContent", done |-> FALSE, a |-> x, b |-> y]

\* URLs: a host, a path and a query, the empty string, a string that is
\* not a URL
UrlHosts == {<<"stripe", "com">>, <<"www", "stripe", "com">>,
             <<"blog", "stripe", "com">>, <<"support", "stripe", "com">>,
             <<"other", "com">>, <<"stripe", "co", "uk">>,
             <<"shop", "stripe", "co", "uk">>, <<"other", "co", "uk">>}
UrlPaths == {<<>>,
             <<UrlTok("/", "terms", "path")>>,
             <<UrlTok("/", "Terms", "path")>>,
             <<UrlTok("/", "myterms", "path")>>,
             <<UrlTok("/", "docs", "path")>>,
             <<UrlTok("/", "blog", "path")>>,
             <<UrlTok("/", "newsroom", "path")>>,
             <<UrlTok("/", "blog", "path"), UrlTok("/", "terms", "path")>>,
             <<UrlTok("/", "case", "path"), UrlTok("-", "study", "path")>>,
             <<UrlTok("/", "docs", "path"), UrlTok("-", "terms", "path")>>}
UrlQueries == {<<>>,
               <<UrlTok("?", "ref", "query"), UrlTok("=", "blog", "query")>>,
               <<UrlTok("?", "ref", "query"), UrlTok("=", "terms", "query")>>,
               <<UrlTok("?", "next", "query"), UrlTok("/", "terms", "query")>>}

HostToks(host) ==
  [i \in 1..Len(host) |-> UrlTok(IF i = 1 THEN "//" ELSE ".", host[i], "host")]

UrlStrings ==
  {<<>>, <<UrlTok("", "terms", "path")>>}
  \cup {HostToks(h) \o p \o q : h \in UrlHosts, p \in UrlPaths, q \in UrlQueries}

VendorDomains == {<<>>, <<"stripe", "com">>, <<"www", "stripe", "com">>,
                  <<"Stripe", "com">>, <<"stripe", "co", "uk">>}

UrlFilterCalls ==
  {[fn |-> "isRelevantVendorUrl", done |-> FALSE, vendorDomain |-> d, url |-> u] :
     d \in VendorDomains, u \in UrlStrings}

\* extractor results for the guard: the given keys, every one holding the
\* same list of facts
DataWith(keys, facts) == [k \in keys |-> facts]

ThreeKeys == {"pricing_terms", "liability_clauses", "termination_terms"}
FourKeys == ThreeKeys \cup {"renewal_terms"}
FiveKeys == FourKeys \cup {"encryption_practices"}

GuardData ==
  {DataWith(ks, f) :
     ks \in {ThreeKeys, FourKeys, FiveKeys, ThreeKeys \cup {"summary"},
             ThreeKeys \cup SkipKeys, FourKeys \cup {"summary"}},
     f \in {<<FactCap>>, <<>>}}

GuardUrls == {HomeUrl, TermsUrl, Url("vendor.com", <<"terms", "">>), Url("", <<>>)}

GuardTexts == {<<>>, <<"home">>, <<"home", " ", "liability">>,
               <<"home", " ", "Liability">>, <<"translate">>,
               <<"limitation of liability">>,
               <<"pad", "liability">>, <<"padShort", "liability">>,
               <<"padShort", "home", " ", "liability">>}

GuardCalls ==
  {[fn |-> "looksHallucinated", done |-> FALSE, data |-> d, sourceUrl |-> u,
    text |-> t] : d \in GuardData, u \in GuardUrls, t \in GuardTexts}

\* finding lists: at most MaxFindings findings, one finding per category to
\* choose from, in any order and with repetitions
OneFinding ==
  {[category |-> CATEGORY_LABELS(k), key |-> k, gap |-> FALSE, concern |-> "medium"] :
     k \in {"termination_terms", "encryption_practices", "pricing_terms",
            "support_response_times"}}
FindingLists == UNION {[1..k -> OneFinding] : k \in 0..MaxFindings}

ActionsCalls ==
  {[fn |-> "buildRecommendedActionsFromFindings", done |-> FALSE, findings |-> f] :
     f \in FindingLists}

\* structured data handed to extractRiskFindings: any of three fields, each
\* with no fact left, one fact, two facts, or the two-character fact "ok"
FindingFieldValues == {<<>>, <<FactCap>>, <<FactCap, FactUnlimited>>, <<<<"ok">>>>}
FindingKeys == {"liability_clauses", "data_residency_locations", "pricing_terms"}
FindingsCalls ==
  {[fn |-> "extractRiskFindings", done |-> FALSE, data |-> d] :
     d \in UNION {[ks -> FindingFieldValues] : ks \in SUBSET FindingKeys}}

\* normalizeToStructured: of the schema keys of the raw result, those that
\* hold a non-blank string; a string value is a list of one fact
normalizeToStructured(raw) ==
  LET kept == {k \in DOMAIN raw \cap Keys : toArray(raw[k]) # <<>>}
  IN  [k \in kept |-> toArray(raw[k])]

\* extractStructuredData: null without a first result; the normalized
\* result when it has a key, else the first result as the service sent it
extractStructuredData(res) ==
  IF ~res.def THEN Undefined
  ELSE LET normalized == normalizeToStructured(res.val)
       IN  IF DOMAIN normalized # {} THEN Some(normalized) ELSE Some(res.val)

\* raw results: a key outside the schema only, a schema key holding a blank
\* string and one holding an empty list, a schema fact next to a blank one
\* and an unknown key
RawUnknownKey == [k \in {"vendor_name"} |-> <<<<"acme">>>>]
RawBlank == [k \in {"pricing_terms", "fee_structures"} |->
               IF k = "pricing_terms" THEN <<<<" ">>>> ELSE <<>>]
RawMixed == [k \in {"liability_clauses", "pricing_terms", "vendor_name"} |->
               IF k = "liability_clauses" THEN <<FactCap, <<" ">>>>
               ELSE IF k = "pricing_terms" THEN <<<<" ">>>> ELSE <<<<"acme">>>>]

\* extraction candidates: a relevant URL and the first result the service
\* sends for it (none, {}, or a record); a list holds a URL once
LegalRootUrl == Url("legal.vendor.com", <<>>)
PrivacyUrl == Url("vendor.com", <<"privacy">>)

Candidates ==
  {[url |-> u, data |-> d] :
     u \in {LegalRootUrl, TermsUrl, PrivacyUrl},
     d \in {Undefined, Some(EmptyData), Some(DataA), Some(DataRich),
            Some(RawUnknownKey), Some(RawBlank), Some(RawMixed)}}

CandidateLists ==
  {l \in UNION {[1..k -> Candidates] : k \in 0..MaxCandidates} :
     \A i, j \in 1..Len(l) : l[i].url = l[j].url => i = j}

ExtractionCalls ==
  {[fn |-> "extractFromUrls", done |-> FALSE, urls |-> l, text |-> t, i |-> 1,
    tried |-> <<>>, result |-> Undefined, structured |-> Undefined,
    sourceUrl |-> Undefined] :
     l \in CandidateLists, t \in {<<"home">>, <<"home", " ", "liability">>}}

PureCalls ==
  RuleEngineCalls \cup UrlFilterCalls \cup GuardCalls \cup ActionsCalls
  \cup ExtractionCalls \cup FindingsCalls

ApplyRuleEngine ==
  /\ call.fn = "runRuleEngine"
  /\ ~call.done
  /\ call' = [fn |-> call.fn, done |-> TRUE, oldData |-> call.oldData,
              newData |-> call.newData,
              out |-> runRuleEngine(call.oldData, call.newData)]
  /\ UNCHANGED CycleVars

\* hashContent is applied to each of the two texts
ApplyHashContent ==
  /\ call.fn = "hashContent"
  /\ ~call.done
  /\ call' = [fn |-> call.fn, done |-> TRUE, a |-> call.a, b |-> call.b,
              hashA |-> hashContent(call.a), hashB |-> hashContent(call.b)]
  /\ UNCHANGED CycleVars

ApplyUrlFilter ==
  /\ call.fn = "isRelevantVendorUrl"
  /\ ~call.done
  /\ call' = [fn |-> call.fn, done |-> TRUE, vendorDomain |-> call.vendorDomain,
              url |-> call.url,
              out |-> isRelevantVendorUrl(call.vendorDomain, call.url)]
  /\ UNCHANGED CycleVars

ApplyGuard ==
  /\ call.fn = "looksHallucinated"
  /\ ~call.done
  /\ call' = [fn |-> call.fn, done |-> TRUE, data |-> call.data,
              sourceUrl |-> call.sourceUrl, text |-> call.text,
              out |-> looksHallucinated(call.data, call.sourceUrl, call.text)]
  /\ UNCHANGED CycleVars

ApplyBuildActions ==
  /\ call.fn = "buildRecommendedActionsFromFindings"
  /\ ~call.done
  /\ call' = [fn |-> call.fn, done |-> TRUE, findings |-> call.findings,
              out |-> buildRecommendedActionsFromFindings(call.findings)]
  /\ UNCHANGED CycleVars

ApplyRiskFindings ==
  /\ call.fn = "extractRiskFindings"
  /\ ~call.done
  /\ call' = [fn |-> call.fn, done |-> TRUE, data |-> call.data,
              out |-> extractRiskFindings(Some(call.data))]
  /\ UNCHANGED CycleVars

\* extractFromUrls: extractStructuredData resolves for the next URL; data
\* with at least one key ends the loop
ExtractorReturns ==
  /\ call.fn = "extractFromUrls"
  /\ ~call.done
  /\ ~call.result.def
  /\ call.i <= Len(call.urls)
  /\ LET u == call.urls[call.i]
         data == extractStructuredData(u.data)
     IN  call' = [call EXCEPT
           !.tried = Append(@, u.url),
           !.i = @ + 1,
           !.result = IF data.def /\ DOMAIN data.val # {}
                      THEN Some([data |-> data.val, sourceUrl |-> u.url])
                      ELSE Undefined]
  /\ UNCHANGED CycleVars

\* extractFromUrls has resolved: the cycle applies the guard to its result
\* and keeps the filtered data
ExtractionResolved ==
  /\ call.fn = "extractFromUrls"
  /\ ~call.done
  /\ call.result.def \/ call.i > Len(call.urls)
  /\ LET kept == /\ call.result.def
                 /\ ~looksHallucinated(call.result.val.data,
                                        call.result.val.sourceUrl, call.text)
     IN  call' = [call EXCEPT
           !.done = TRUE,
           !.structured = IF kept THEN Some(filterStructuredData(call.result.val.data))
                          ELSE Undefined,
           !.sourceUrl = IF kept THEN Some(call.result.val.sourceUrl) ELSE Undefined]
  /\ UNCHANGED CycleVars

InitPure ==
  /\ \/ call \in PureCalls
     \/ \E x \in Texts, y \in Texts : call = HashCall(x, y)
  /\ cancelRequested = FALSE
  /\ researchOverride = Undefined
  /\ alertOverride = Undefined
  /\ snapshots = <<>>
  /\ riskEvents = <<>>
  /\ pc = [c \in Procs |-> "idle"]
  /\ runId = [c \in Procs |-> 0]
  /\ vendors = [c \in Procs |-> <<>>]
  /\ idx = [c \in Procs |-> 0]
  /\ results = [c \in Procs |-> <<>>]
  /\ emitted = [c \in Procs |-> <<>>]
  /\ loc = [c \in Procs |-> LocInit]
  /\ cancelAt = [c \in Procs |-> -1]
  /\ subThrew = [c \in Procs |-> FALSE]
  /\ baseline = [v \in Vendors |-> Undefined]
  /\ runs = 0
  /\ iterations = 0
  /\ faults = 0
  /\ cancels = 0
  /\ configChanges = 0

NextPure ==
  \/ ApplyRuleEngine
  \/ ApplyHashContent
  \/ ApplyUrlFilter
  \/ ApplyGuard
  \/ ApplyBuildActions
  \/ ExtractorReturns
  \/ ExtractionResolved
  \/ ApplyRiskFindings

SpecPure == InitPure /\ [][NextPure]_vars

\* ------------------------------------------------------------ properties
\* the iteration of loc[c].vendor has ended and the loop head has not run yet
IterationEnded(c) == pc[c] = "boundary" /\ idx[c] > 0

LastResult(c) == results[c][Len(results[c])]

ResultsOf(c, v) == SelectSeq(results[c], LAMBDA r : r.vendorId = v)

\* the iteration of cycle c made no call on the stores, the extractor, the
\* narrative generator or the notifier after the snapshot lookup
NoCallAfterLookup(c) ==
  loc[c].calls \cap {"extractFromUrls", "extractor", "insertSnapshot", "narrative",
                     "sendRiskAlert", "transport", "insertRiskEvent"} = {}

\* C1: a vendor without a stored snapshot whose scrape succeeds ends its
\* iteration, whatever the crawler, the search, the extractor and the research
\* mode gave, with exactly one Snapshot and one RiskEvent stored for it and
\* the single result first_snapshot with riskEventCreated = true (the stores
\* accept the writes and the subscriber returns).
C1_FirstSnapshot ==
  \A c \in Procs :
    (/\ IterationEnded(c)
     /\ loc[c].scrapeOk
     /\ loc[c].snapshotsBefore = 0
     /\ ~loc[c].storeThrew
     /\ ~subThrew[c])
    => /\ ResultsOf(c, loc[c].vendor) =
            <<Result(loc[c].vendor, "first_snapshot", "", TRUE)>>
       /\ LastResult(c).vendorId = loc[c].vendor
       /\ Len(SnapshotsOf(loc[c].vendor)) = 1
       /\ Len(RiskEventsOf(loc[c].vendor)) = 1

\* a first snapshot stored in basic mode after the crawl failed and the
\* extractor found nothing
C1_Witness ==
  \E c \in Procs :
    /\ IterationEnded(c)
    /\ loc[c].snapshotsBefore = 0
    /\ LastResult(c).status = "first_snapshot"
    /\ loc[c].pagesCrawled = 0
    /\ ~loc[c].structured.def
    /\ ~loc[c].isDeep

\* C2: a vendor whose first snapshot is stored and that is processed again
\* while the scraper and the search return what they returned then (the
\* crawler, were it called, likewise) gets the result unchanged, and no
\* Snapshot and no RiskEvent is added for it.
C2_IdenticalRerun ==
  \A c \in Procs :
    (/\ IterationEnded(c)
     /\ loc[c].scrapeOk
     /\ loc[c].snapshotsBefore = 1
     /\ loc[c].contentHash.def
     /\ baseline[loc[c].vendor] =
          Some([scraped |-> loc[c].scraped, searched |-> loc[c].searched]))
    => /\ LastResult(c) = Result(loc[c].vendor, "unchanged", "", FALSE)
       /\ Len(SnapshotsOf(loc[c].vendor)) = 1
       /\ Len(RiskEventsOf(loc[c].vendor)) = 1

\* C3: every stored RiskEvent follows a Snapshot of the same vendor appended
\* in the same cycle, and no vendor has more RiskEvents than Snapshots.
C3_EventAfterSnapshot ==
  /\ \A i \in 1..Len(riskEvents) :
       \E j \in 1..Len(snapshots) :
         /\ snapshots[j].vendorId = riskEvents[i].vendorId
         /\ snapshots[j].run = riskEvents[i].run
         /\ snapshots[j].createdAt < riskEvents[i].createdAt
  /\ \A v \in Vendors : Len(RiskEventsOf(v)) <= Len(SnapshotsOf(v))

\* a cancelled cycle after a store failure left a snapshot without an event
C3_Witness ==
  /\ cancelRequested
  /\ faults > 0
  /\ Len(riskEvents) > 0
  /\ Len(snapshots) > Len(riskEvents)

\* C4: once the fingerprint of a vendor equals the contentHash of its latest
\* snapshot the iteration is over: the result is unchanged, neither store
\* has grown for the vendor, and the extractor, the narrative generator and
\* the notifier were not called (the subscriber returns).
C4_Unchanged ==
  \A c \in Procs :
    (/\ loc[c].contentHash.def
     /\ loc[c].lastSnapshot.def
     /\ loc[c].lastSnapshot.val.contentHash = loc[c].contentHash.val
     /\ ~subThrew[c])
    => /\ IterationEnded(c)
       /\ LastResult(c) = Result(loc[c].vendor, "unchanged", "", FALSE)
       /\ Len(ResultsOf(c, loc[c].vendor)) = 1
       /\ Len(SnapshotsOf(loc[c].vendor)) = loc[c].snapshotsBefore
       /\ Len(RiskEventsOf(loc[c].vendor)) = loc[c].riskEventsBefore
       /\ NoCallAfterLookup(c)

\* an unchanged vendor whose search returned results
C4_Witness ==
  \E c \in Procs :
    /\ IterationEnded(c)
    /\ LastResult(c).status = "unchanged"
    /\ loc[c].externalSources > 0

LastEventOf(v) == RiskEventsOf(v)[Len(RiskEventsOf(v))]

DataOf(structured) == IF structured.def THEN structured.val ELSE EmptyData

\* the two structured data differ in the liability-clause field and in no other
OnlyLiabilityDiffers(prev, curr) ==
  /\ Field(DataOf(prev), "liability_clauses") # Field(DataOf(curr), "liability_clauses")
  /\ \A k \in Keys \ {"liability_clauses"} :
       Field(DataOf(prev), k) = Field(DataOf(curr), k)

\* the iteration of cycle c stored a snapshot and an event for a vendor whose
\* fingerprint differs from its latest snapshot's and whose structured data
\* differs from that snapshot's in the liability-clause field only
LiabilityCase(c) ==
  /\ IterationEnded(c)
  /\ ~loc[c].storeThrew
  /\ ~subThrew[c]
  /\ loc[c].contentHash.def
  /\ loc[c].lastSnapshot.def
  /\ loc[c].lastSnapshot.val.contentHash # loc[c].contentHash.val
  /\ OnlyLiabilityDiffers(PrevStructured(loc[c]), loc[c].structured)

LiabilityOutcome(c) ==
  /\ ResultsOf(c, loc[c].vendor) = <<Result(loc[c].vendor, "changed", "", TRUE)>>
  /\ Len(SnapshotsOf(loc[c].vendor)) = loc[c].snapshotsBefore + 1
  /\ Len(RiskEventsOf(loc[c].vendor)) = loc[c].riskEventsBefore + 1
  /\ LastEventOf(loc[c].vendor).type = "legal"
  /\ LastEventOf(loc[c].vendor).severity = "medium"

CancelledVendor(c) == vendors[c][cancelAt[c] + 1]

\* C6: after requestCancellation() during vendor i the cycle finishes vendor
\* i and no more: it never advances to a later vendor, and when it returns
\* the results are those of the vendors up to and including i, vendor i's
\* result event was emitted, and the last event is complete with those
\* results (the subscriber returns).
C6_Cancellation ==
  \A c \in Procs :
    (cancelAt[c] >= 0 /\ ~subThrew[c])
    => /\ idx[c] \in {cancelAt[c], cancelAt[c] + 1}
       /\ idx[c] = cancelAt[c] + 1 => pc[c] \in {"boundary", "done"}
       /\ pc[c] \notin {"boundary", "done"} => loc[c].vendor = CancelledVendor(c)
       /\ \A k \in 1..Len(emitted[c]) :
            emitted[c][k].type = "progress" => emitted[c][k].current <= cancelAt[c]
       /\ pc[c] = "done"
            => /\ Len(results[c]) = cancelAt[c] + 1
               /\ \A k \in 1..Len(results[c]) : results[c][k].vendorId = vendors[c][k]
               /\ emitted[c][Len(emitted[c])] = CompleteEvent(results[c])
               /\ emitted[c][Len(emitted[c]) - 1] =
                    ResultEvent(cancelAt[c] + 1, results[c][cancelAt[c] + 1])

\* a cycle cancelled during its first vendor returned after storing that
\* vendor's snapshot and event, with a later vendor left unprocessed
C6_Witness ==
  \E c \in Procs :
    /\ pc[c] = "done"
    /\ cancelAt[c] = 0
    /\ Len(vendors[c]) > 1
    /\ results[c][1].riskEventCreated
    /\ Len(SnapshotsOf(vendors[c][1])) > 0
    /\ Len(SnapshotsOf(vendors[c][2])) = 0

\* C7: runMonitorCycle is left by an exception only before the first vendor
\* (the database cannot be reached), never by one raised while a vendor is
\* processed, the progress subscriber's included; and it returns with fewer
\* results than vendors only when cancellation was requested.
C7_NoExceptionEndsCycle ==
  \A c \in Procs :
    /\ pc[c] = "thrown" => (~subThrew[c] /\ idx[c] = 0 /\ emitted[c] = <<>>)
    /\ (pc[c] = "done" /\ Len(results[c]) < Len(vendors[c])) => cancelRequested

\* C8: a vendor's result is error only if its scrape failed (the subscriber
\* returns).
C8_ErrorOnlyOnScrapeFailure ==
  \A c \in Procs :
    (IterationEnded(c) /\ ~subThrew[c] /\ LastResult(c).status = "error")
    => ~loc[c].scrapeOk

\* C9: a vendor whose scrape failed has the single result error with the
\* scraper's error; only the scraper was called for it, neither store has
\* grown for it, and the loop is at its head for the next vendor (the
\* subscriber returns).
C9_ScrapeFailure ==
  \A c \in Procs :
    (pc[c] \notin {"idle", "load", "scrape"} /\ loc[c].vendor # 0
       /\ ~loc[c].scrapeOk /\ ~subThrew[c])
    => /\ IterationEnded(c)
       /\ ResultsOf(c, loc[c].vendor) =
            <<[vendorId |-> loc[c].vendor, status |-> "error",
               error |-> loc[c].scrapeError, riskEventCreated |-> FALSE]>>
       /\ LastResult(c).vendorId = loc[c].vendor
       /\ emitted[c][Len(emitted[c])] = ResultEvent(idx[c], LastResult(c))
       /\ loc[c].scrapeError # ""
       /\ loc[c].calls = {"scraper"}
       /\ Len(SnapshotsOf(loc[c].vendor)) = loc[c].snapshotsBefore
       /\ Len(RiskEventsOf(loc[c].vendor)) = loc[c].riskEventsBefore

\* the first vendor's scrape timed out and a second vendor is still to come
C9_Witness ==
  \E c \in Procs :
    /\ IterationEnded(c)
    /\ ~loc[c].scrapeOk
    /\ LastResult(c).error = "timeout"
    /\ idx[c] < Len(vendors[c])

\* C10: every stored RiskEvent has a severity among low, medium, high, the
\* source rules or ai, a non-empty summary and a non-empty recommendedAction.
C10_WellFormedEvent ==
  \A i \in 1..Len(riskEvents) :
    /\ riskEvents[i].severity \in Severities
    /\ riskEvents[i].source \in {"rules", "ai"}
    /\ riskEvents[i].summary # <<>>
    /\ riskEvents[i].recommendedAction # <<>>

\* C11: in a run that is not cancelled the subscriber receives progress(v1),
\* result(v1), ..., progress(vn), result(vn), complete: one progress and one
\* result per selected vendor in vendor order, then complete once and last,
\* carrying the returned results, one per selected vendor (the subscriber
\* returns).
C11_EventSequence ==
  \A c \in Procs :
    (~cancelRequested /\ ~subThrew[c])
    => LET n == Len(vendors[c])
       IN  /\ Len(emitted[c]) <= 2 * n + 1
           /\ \A k \in 1..Len(emitted[c]) :
                IF k = 2 * n + 1
                THEN /\ pc[c] = "done"
                     /\ emitted[c][k] = CompleteEvent(results[c])
                ELSE IF k % 2 = 1
                THEN emitted[c][k] = ProgressEvent((k - 1) \div 2, vendors[c][(k + 1) \div 2])
                ELSE /\ emitted[c][k] = ResultEvent(k \div 2, results[c][k \div 2])
                     /\ results[c][k \div 2].vendorId = vendors[c][k \div 2]
           /\ pc[c] = "done" => (Len(emitted[c]) = 2 * n + 1 /\ Len(results[c]) = n)

\* an uncancelled run over two vendors returned, one of them after a store
\* failure
C11_Witness ==
  \E c \in Procs :
    /\ pc[c] = "done"
    /\ ~cancelRequested
    /\ ~subThrew[c]
    /\ Len(vendors[c]) = 2
    /\ Len(emitted[c]) = 5
    /\ \E k \in 1..2 : results[c][k].error = "store failed"

\* the severities sendRiskAlert was configured with when cycle c called it
ConfiguredSeverities(c) ==
  LET env == loc[c].alertEnv
  IN  IF env.override.def THEN env.override.val
      ELSE IF env.envList \cap {"low", "medium", "high"} # {}
           THEN env.envList \cap {"low", "medium", "high"}
           ELSE {"medium", "high"}

\* C12: the transport is called iff the event's severity is in the
\* configured set (medium and high by default) and the API key and the
\* recipient are configured; sendRiskAlert returns true only when the
\* transport reported success, and false, without an exception, on missing
\* configuration or a transport failure; the stored RiskEvent carries that
\* value as alertSent.
C12_AlertGate ==
  \A c \in Procs :
    ("sendRiskAlert" \in loc[c].calls)
    => /\ loc[c].alertCalled <=>
            (/\ loc[c].alertEnv.hasKey
             /\ loc[c].alertEnv.hasTo
             /\ loc[c].analysis.severity \in ConfiguredSeverities(c))
       /\ ("transport" \in loc[c].calls) <=> loc[c].alertCalled
       /\ pc[c] # "alert"
            => /\ loc[c].alertSent <=> (loc[c].alertCalled /\ loc[c].transport = "ok")
               /\ pc[c] = "saveEvent" \/ loc[c].storeThrew \/ subThrew[c]
                    \/ /\ IterationEnded(c)
                       /\ LastResult(c).riskEventCreated
                       /\ LastEventOf(loc[c].vendor).alertSent = loc[c].alertSent

\* a low-severity event under the default preference was stored without the
\* transport being called
C12_Witness ==
  \E c \in Procs :
    /\ IterationEnded(c)
    /\ LastResult(c).riskEventCreated
    /\ loc[c].alertEnv = [hasKey |-> TRUE, hasTo |-> TRUE, override |-> Undefined,
                          envList |-> {}]
    /\ loc[c].analysis.severity = "low"
    /\ ~LastEventOf(loc[c].vendor).alertSent

\* the rule a tracked field belongs to, and the fields no rule tracks
RuleOfField(k) ==
  CASE k \in {"pricing_terms", "fee_structures"} -> "rule.pricing"
    [] k = "liability_clauses" -> "rule.liability"
    [] k = "termination_terms" -> "rule.termination"
    [] k = "indemnification_terms" -> "rule.indemnification"
    [] k = "data_residency_locations" -> "rule.residency"
    [] k = "compliance_references" -> "rule.compliance"
    [] k = "data_retention_policies" -> "rule.retention"
    [] k = "sla_uptime_commitments" -> "rule.sla"
    [] k = "support_response_times" -> "rule.support"
    [] OTHER -> "none"

UntrackedFields == {"renewal_terms", "encryption_practices", "data_export_rights"}

\* the fields of two structured data that differ after normalization
DifferingFields(oldData, newData) ==
  {k \in Keys : toStr(Field(DataOf(oldData), k)) # toStr(Field(DataOf(newData), k))}

\* the fixed type and severity of the rule of field k
ExpectedClass(k, oldData, newData) ==
  CASE k \in {"pricing_terms", "fee_structures"} -> <<"financial", "medium">>
    [] k \in {"liability_clauses", "termination_terms", "indemnification_terms"}
         -> <<"legal", "medium">>
    [] k = "data_residency_locations" -> <<"security", "high">>
    [] k = "data_retention_policies" -> <<"security", "medium">>
    [] k = "sla_uptime_commitments" -> <<"operational", "medium">>
    [] k = "support_response_times" -> <<"operational", "low">>
    [] k = "compliance_references" ->
         IF toStr(Field(DataOf(newData), k)) = <<>> /\ toStr(Field(DataOf(oldData), k)) # <<>>
         THEN <<"security", "high">> ELSE <<"security", "medium">>
    [] OTHER -> <<"none", "none">>

\* the summary of a rule result names the rule that produced it
RuleName(r) ==
  IF r.summary = Lit("rule.compliance.removed") THEN "rule.compliance"
  ELSE r.summary[1].text

\* C13: runRuleEngine returns one result for each rule whose field differs
\* after normalization and nothing else: none for equal records, none when
\* only renewal, encryption or export fields differ, and for a single
\* differing tracked field the one result with that field's type and
\* severity.
C13_RuleEngine ==
  (call.fn = "runRuleEngine" /\ call.done)
  => LET diff == DifferingFields(call.oldData, call.newData)
         fired == {RuleOfField(k) : k \in diff \ UntrackedFields}
     IN  /\ {RuleName(call.out[i]) : i \in 1..Len(call.out)} = fired
         /\ Len(call.out) = Cardinality(fired)
         /\ call.oldData = call.newData => call.out = <<>>
         /\ diff \subseteq UntrackedFields => call.out = <<>>
         /\ \A k \in Keys \ UntrackedFields :
              diff = {k}
              => /\ Len(call.out) = 1
                 /\ <<call.out[1].type, call.out[1].severity>> =
                      ExpectedClass(k, call.oldData, call.newData)

\* compliance references went from a fact to none: security, high
C13_Witness ==
  /\ call.fn = "runRuleEngine"
  /\ call.done
  /\ call.oldData = Some(OneField("compliance_references", <<FactCap>>))
  /\ call.newData = Undefined
  /\ Len(call.out) = 1
  /\ call.out[1].severity = "high"

\* the iteration of cycle c stored a RiskEvent
EventStored(c) ==
  /\ IterationEnded(c)
  /\ ~subThrew[c]
  /\ LastResult(c).riskEventCreated

\* the rule results for the previous and the current structured data of the
\* vendor of cycle c
RulesFired(c) == runRuleEngine(PrevStructured(loc[c]), loc[c].structured)

\* the fallback summary and action the cycle passes to ruleResultToRiskEvent
CallerFallbackSummary(c) ==
  IF buildCanonicalSummary(loc[c].structured) # <<>>
  THEN buildCanonicalSummary(loc[c].structured)
  ELSE IF loc[c].lastSnapshot.def
  THEN Lit("Vendor content changed. No structured field changes detected by rules.")
  ELSE Lit("Initial baseline established. Content stored for future comparison.")

CallerFallbackAction(c) ==
  IF loc[c].lastSnapshot.def
  THEN Lit("Review the extracted content and structured data in the dashboard.")
  ELSE Lit("Run the monitor periodically to detect changes.")

C14_WitnessNoRule ==
  \E c \in Procs :
    /\ EventStored(c)
    /\ ~loc[c].isDeep
    /\ RulesFired(c) = <<>>
    /\ LastEventOf(loc[c].vendor).recommendedAction = CallerFallbackAction(c)

\* the narrative generator was unconfigured, threw, or returned output
\* without a valid severity
NarrativeFailed(c) ==
  /\ loc[c].narrative.kind # "none"
  /\ \/ loc[c].narrative.kind \in {"unconfigured", "throws"}
     \/ ~loc[c].narrative.severity.def
     \/ loc[c].narrative.severity.val \notin Severities

\* C15: in deep mode, when the narrative generator failed, the RiskEvent has
\* the severity and type the rule engine yields for the previous and current
\* structured data: those of the first firing rule, operational / low when
\* none fires.
C15_DeepFallsBackToRules ==
  \A c \in Procs :
    (EventStored(c) /\ loc[c].isDeep /\ NarrativeFailed(c))
    => LET ev == LastEventOf(loc[c].vendor)
           fired == RulesFired(c)
       IN  /\ Len(fired) > 0
                => /\ ev.type = fired[1].type
                   /\ ev.severity = fired[1].severity
           /\ Len(fired) = 0
                => /\ ev.type = "operational"
                   /\ ev.severity = "low"

\* the text with its leading and trailing whitespace removed, one newline
\* kept for a run of newlines and one space for a run of other whitespace
RECURSIVE KeepOnePerRun(_)
KeepOnePerRun(s) ==
  IF Len(s) < 2 THEN s
  ELSE IF IsSpace(s[1]) /\ s[2] = s[1] THEN KeepOnePerRun(Tail(s))
  ELSE <<s[1]>> \o KeepOnePerRun(Tail(s))

DifferOnlyInRunLength(a, b) == KeepOnePerRun(Trim(a)) = KeepOnePerRun(Trim(b))

\* C16: two texts have the same fingerprint exactly when they differ only in
\* the length of whitespace runs or in leading / trailing whitespace, where
\* a run of newlines counts as one newline and a run of other whitespace as
\* one space.
C16_HashEquality ==
  (call.fn = "hashContent" /\ call.done)
  => ((call.hashA = call.hashB) <=> DifferOnlyInRunLength(call.a, call.b))

\* the half of C16 that holds: texts that differ only in the length of
\* whitespace runs or in leading / trailing whitespace have one fingerprint
C16_RunLengthIgnored ==
  (call.fn = "hashContent" /\ call.done /\ DifferOnlyInRunLength(call.a, call.b))
  => call.hashA = call.hashB

\* ---- the URL filter, restated on the parts of the URL
UrlCall == call.fn = "isRelevantVendorUrl" /\ call.done

\* the host of the URL without a leading www, and the vendor's, lower-cased
BareHost(labels) ==
  IF Len(labels) > 1 /\ labels[1] = "www" THEN Tail(labels) ELSE labels
RootOf(labels) ==
  LET b == BareHost([i \in 1..Len(labels) |-> LowerWord(labels[i])])
      n == IF Len(b) >= 3 /\ SubSeq(b, Len(b) - 1, Len(b)) \in TwoPartTlds
           THEN 3 ELSE 2
  IN  IF Len(b) <= n THEN b ELSE SubSeq(b, Len(b) - n + 1, Len(b))

HostOf(url) == SelectSeq(url, LAMBDA t : t.part = "host")
PathOf(url) == SelectSeq(url, LAMBDA t : t.part = "path")
WordsOf(toks) == [i \in 1..Len(toks) |-> toks[i].word]

SameRoot(vendorDomain, url) == RootOf(WordsOf(HostOf(url))) = RootOf(vendorDomain)

\* some keyword of the list occurs in the given words
KeywordIn(list, toks) ==
  \E kw \in list : \E i \in 1..Len(toks) : ContainsAt(toks, i, kw)

\* some allow-list keyword directly follows a "/" or a "-" somewhere in the URL
AllowAfterSeparator(url) ==
  \E kw \in PATH_ALLOW : \E i \in 1..Len(url) :
    PrefixedAt(url, i, "/", kw) \/ PrefixedAt(url, i, "-", kw)

C17_WitnessAccepted ==
  /\ UrlCall
  /\ call.out
  /\ Len(HostOf(call.url)) = 4

\* ---- the hallucination guard
RECURSIVE PageChars(_)
PageChars(s) == IF s = <<>> THEN 0 ELSE PageTokChars(Head(s)) + PageChars(Tail(s))

GuardCall == call.fn = "looksHallucinated" /\ call.done

FreeTextFields == {"summary", "rawText", "extractedText"}

\* the fields other than the free-text ones that the data holds, and those of
\* them that hold at least one fact
FieldsPresent(data) == DOMAIN data \ FreeTextFields
FieldsPopulated(data) == {k \in FieldsPresent(data) : data[k] # <<>>}

BareRoot(url) == url.host # "" /\ url.path = <<>>

\* a legal keyword lies wholly within the first GuardTextChars characters
LegalKeywordInWindow(text) ==
  \E i \in 1..Len(text) :
    /\ KeywordsInTok(LowerTok(text[i])) \cap LEGAL_KEYWORDS # {}
    /\ PageChars(SubSeq(text, 1, i)) <= GuardTextChars

\* C18 as stated: the guard rejects exactly when at least 4 fields other
\* than the free-text ones are populated, the source URL is the bare root and
\* no legal keyword occurs in the first 12,000 characters of the text.
C18_PopulatedFields ==
  GuardCall
  => (call.out <=> /\ Cardinality(FieldsPopulated(call.data)) >= GuardMinFields
                   /\ BareRoot(call.sourceUrl)
                   /\ ~LegalKeywordInWindow(call.text))

\* What the guard does: it counts the fields the data holds, populated or
\* not; a source URL with a path other than the root is never rejected, and a
\* root URL is not rejected when the text holds a legal keyword.
GuardCountsKeys ==
  GuardCall
  => /\ call.out <=> /\ Cardinality(FieldsPresent(call.data)) >= GuardMinFields
                      /\ BareRoot(call.sourceUrl)
                      /\ ~LegalKeywordInWindow(call.text)
     /\ ~BareRoot(call.sourceUrl) => ~call.out
     /\ LegalKeywordInWindow(call.text) => ~call.out

\* five populated fields from the bare root, no legal keyword: rejected
GuardRejectsHomepage ==
  /\ GuardCall
  /\ Cardinality(FieldsPopulated(call.data)) = 5
  /\ call.sourceUrl = HomeUrl
  /\ call.text = <<"home">>
  /\ call.out

\* the same facts from /terms, no legal keyword: not rejected
GuardPassesTermsPage ==
  /\ GuardCall
  /\ Cardinality(FieldsPopulated(call.data)) = 5
  /\ call.sourceUrl = TermsUrl
  /\ call.text = <<"home">>
  /\ ~call.out

\* ---- recommended actions built from findings
ActionsCall == call.fn = "buildRecommendedActionsFromFindings" /\ call.done

CategoriesOf(findings) == {findings[i].category : i \in 1..Len(findings)}

\* the place of a category in Legal, Data & Security, Financial, Operational
CategoryRank(cat) ==
  CASE cat = "Legal" -> 1
    [] cat = "Data & Security" -> 2
    [] cat = "Financial" -> 3
    [] cat = "Operational" -> 4
    [] OTHER -> 0

MarkerLine == Line(0, "Recommended actions:")
ClosingStep == "Run the monitor periodically to detect future changes."

\* C19: the text is empty for an empty finding list; for any other list it
\* holds the "Recommended actions" marker once, followed by exactly one
\* numbered action per category that has a finding, in the order Legal,
\* Data & Security, Financial, Operational, numbered from 1 without gaps,
\* and the periodic-monitoring step, numbered next, is its last line.
C19_RecommendedActions ==
  ActionsCall
  => LET out == call.out
         cats == CategoriesOf(call.findings)
         k == Cardinality(cats)
     IN  IF call.findings = <<>> THEN out = <<>>
         ELSE \E m \in 1..Len(out) :
                /\ out[m] = MarkerLine
                /\ \A i \in 1..Len(out) : out[i] = MarkerLine => i = m
                /\ Len(out) = m + k + 1
                /\ \A j \in 1..k :
                     /\ out[m + j].n = j
                     /\ out[m + j].text \in cats
                /\ \A i, j \in 1..k :
                     i < j => CategoryRank(out[m + i].text) < CategoryRank(out[m + j].text)
                /\ out[Len(out)] = Line(k + 1, ClosingStep)

\* findings given as Financial, then Legal, then Operational: the actions are
\* Legal 1, Financial 2, Operational 3, and the closing step is 4
C19_Witness ==
  /\ ActionsCall
  /\ Len(call.findings) = 3
  /\ call.findings[1].category = "Financial"
  /\ call.findings[2].category = "Legal"
  /\ call.findings[3].category = "Operational"
  /\ \E m \in 1..Len(call.out) :
       /\ call.out[m] = MarkerLine
       /\ Len(call.out) = m + 4
       /\ call.out[m + 1] = Line(1, "Legal")
       /\ call.out[m + 2] = Line(2, "Financial")
       /\ call.out[m + 3] = Line(3, "Operational")
       /\ call.out[m + 4] = Line(4, ClosingStep)

\* ---- the search for structured data among the candidates
ExtractionCall == call.fn = "extractFromUrls" /\ call.done

\* candidate i returned data with at least one field that the guard accepts
Eligible(i) ==
  LET data == extractStructuredData(call.urls[i].data)
  IN  /\ data.def
      /\ DOMAIN data.val # {}
      /\ ~looksHallucinated(data.val, call.urls[i].url, call.text)

UrlsUpTo(n) == [i \in 1..n |-> call.urls[i].url]

\* C20: the candidates are tried in list order and the winner is the first
\* whose result is non-empty and not rejected by the guard; a rejected
\* candidate does not end the search, and no extractor call follows the
\* winner.
C20_FirstAcceptedWins ==
  ExtractionCall
  => IF \E i \in 1..Len(call.urls) : Eligible(i)
     THEN LET w == CHOOSE i \in 1..Len(call.urls) :
                     Eligible(i) /\ \A j \in 1..(i - 1) : ~Eligible(j)
          IN  /\ call.sourceUrl = Some(call.urls[w].url)
              /\ call.tried = UrlsUpTo(w)
     ELSE /\ call.sourceUrl = Undefined
          /\ call.tried = UrlsUpTo(Len(call.urls))

\* What the search does: the candidates are tried in list order up to the
\* first one that returns data with at least one field, and no extractor
\* call follows it.
ExtractionStopsAtFirstData ==
  ExtractionCall
  => \E n \in 0..Len(call.urls) :
       /\ call.tried = UrlsUpTo(n)
       /\ \A j \in 1..(n - 1) :
            ~(call.urls[j].data.def /\ DOMAIN call.urls[j].data.val # {})
       /\ n < Len(call.urls)
            => (call.urls[n].data.def /\ DOMAIN call.urls[n].data.val # {})

\* ---- what an extraction returns
\* the raw result of candidate i holds a non-blank fact under a schema key
SchemaFactSurvives(i) ==
  /\ call.urls[i].data.def
  /\ \E k \in DOMAIN call.urls[i].data.val \cap Keys :
       \E j \in 1..Len(call.urls[i].data.val[k]) :
         Trim(call.urls[i].data.val[k][j]) # <<>>

\* C23: the data an extraction returns holds schema keys only, each with
\* at least one non-blank fact, and a candidate whose raw result has no
\* surviving schema fact does not win: the candidate after it is tried.
C23_NormalizedOrEmpty ==
  ExtractionCall
  => /\ call.result.def
          => /\ DOMAIN call.result.val.data \subseteq Keys
             /\ \A k \in DOMAIN call.result.val.data :
                  /\ call.result.val.data[k] # <<>>
                  /\ \A j \in 1..Len(call.result.val.data[k]) :
                       Trim(call.result.val.data[k][j]) # <<>>
     /\ \A i \in 1..Len(call.tried) :
          ~SchemaFactSurvives(i)
          => /\ ~(call.result.def /\ call.result.val.sourceUrl = call.urls[i].url)
             /\ i < Len(call.urls) => Len(call.tried) > i

\* What the extraction returns for a raw result with a surviving schema
\* fact: the schema keys that hold one, with their non-blank facts.
ExtractionNormalizesFacts ==
  ExtractionCall /\ call.result.def
  => \A i \in 1..Len(call.urls) :
       (call.urls[i].url = call.result.val.sourceUrl /\ SchemaFactSurvives(i))
       => /\ DOMAIN call.result.val.data \subseteq Keys
          /\ \A k \in DOMAIN call.result.val.data :
               /\ call.result.val.data[k] # <<>>
               /\ \A j \in 1..Len(call.result.val.data[k]) :
                    Trim(call.result.val.data[k][j]) # <<>>

\* ---- the findings of a record
FindingsCall == call.fn = "extractRiskFindings" /\ call.done

\* the facts of field k of the record: its non-blank entries
FactsOf(k) ==
  IF k \in DOMAIN call.data
  THEN {j \in 1..Len(call.data[k]) : Trim(call.data[k][j]) # <<>>}
  ELSE {}

FindingsOf(k, gap) ==
  {i \in 1..Len(call.out) : call.out[i].key = k /\ call.out[i].gap = gap}

C25_SnapshotHasEvent ==
  \A c \in Procs :
    IterationEnded(c)
    => /\ \A v \in Vendors : Len(RiskEventsOf(v)) = Len(SnapshotsOf(v))
       /\ LastResult(c).status = "error"
            => Len(snapshots) = loc[c].snapshotsBefore

\* C27: when the iteration of a vendor has ended and the notifier was called
\* with success in it, the cycle has stored a RiskEvent with alertSent = true
\* for that vendor.
C27_NotifiedEventStored ==
  \A c \in Procs :
    (IterationEnded(c) /\ loc[c].alertSent)
    => \E i \in 1..Len(riskEvents) :
         /\ riskEvents[i].vendorId = loc[c].vendor
         /\ riskEvents[i].run = runId[c]
         /\ riskEvents[i].alertSent

\* ---- cancellation and overlapping cycles
\* cycle c starts in this step
Starts(c) == pc[c] \in {"idle", "done", "thrown"} /\ pc'[c] = "load"

\* cycle c leaves the loop head in this step
LeavesLoopHead(c) == pc[c] = "boundary" /\ pc'[c] # "boundary"

\* a request was made while cycle c was processing a vendor and no cycle
\* start has cleared it
RequestPending(c) == cancelAt[c] >= 0 /\ cancelRequested

\* C26: a cycle start clears the cancellation flag, so a request made before
\* a start does not cancel the cycle started; at its loop head a cycle ends
\* early exactly when the flag is set at that moment, and otherwise goes on
\* with its next vendor, so a request cleared by another cycle's start is
\* discarded; while a request made during vendor i of a cycle is not
\* cleared, the cycle does not go past the loop head after vendor i.
C26_FlagClearedAtStart ==
  /\ [][\A c \in Procs :
          /\ Starts(c) => ~cancelRequested'
          /\ (LeavesLoopHead(c) /\ pc'[c] # "thrown")
               => IF cancelRequested \/ idx[c] >= Len(vendors[c])
                  THEN pc'[c] = "done" /\ results'[c] = results[c]
                  ELSE pc'[c] = "scrape"
                       /\ loc'[c].vendor = vendors[c][idx[c] + 1]]_vars
  /\ [](\A c \in Procs :
          RequestPending(c)
          => /\ idx[c] <= cancelAt[c] + 1
             /\ idx[c] = cancelAt[c] + 1 => pc[c] \in {"boundary", "done"}
             /\ pc[c] = "done" => Len(results[c]) = cancelAt[c] + 1)

\* a request made while cycle 1 was processing its first vendor was cleared by
\* the start of cycle 2, and cycle 1 is processing its second vendor
C26_Witness ==
  /\ cancelAt[1] = 0
  /\ ~cancelRequested
  /\ runId[2] > runId[1]
  /\ runId[1] > 0
  /\ idx[1] = 1
  /\ pc[1] = "scrape"
  /\ loc[1].vendor = vendors[1][2]

\* a request that no start cleared has ended both running cycles early
C26_WitnessBothCancelled ==
  /\ cancelRequested
  /\ \A c \in Procs :
       /\ cancelAt[c] >= 0
       /\ pc[c] = "done"
       /\ Len(results[c]) < Len(vendors[c])

\* ---- classification without structured data
\* C28: in basic mode a changed cycle that obtained no structured data stores
\* the operational / low fallback, whatever the latest Snapshot holds; and a
\* changed cycle whose latest Snapshot holds no structured data stores it
\* as well.
C28_NoDataNoFieldChange ==
  \A c \in Procs :
    (EventStored(c) /\ ~loc[c].isDeep /\ loc[c].lastSnapshot.def)
    => LET ev == LastEventOf(loc[c].vendor)
       IN  (~loc[c].structured.def \/ ~PrevStructured(loc[c]).def)
           => ev.type = "operational" /\ ev.severity = "low"

\* ---- the recommended action stored
\* the actions the narrative step returns without structured data: the
\* generator's own, or those of its fallback
NarrativeActions ==
  {Lit("ai.action.long"), Lit("Review the extracted content in the dashboard."),
   Lit("Run the monitor periodically to detect changes.")}

\* C29: the RiskEvent of an iteration that obtained structured data holds the
\* actions built from the findings of that data, in both research modes; the
\* action of the first firing rule (or the cycle's fallback action), or the
\* narrative step's, is stored only when no structured data was obtained.
C29_FindingsActionsStored ==
  \A c \in Procs :
    EventStored(c)
    => LET ev == LastEventOf(loc[c].vendor)
           fired == RulesFired(c)
       IN  IF loc[c].structured.def
           THEN /\ ev.recommendedAction =
                     buildRecommendedActionsFromFindings(
                       extractRiskFindings(loc[c].structured))
                /\ ev.recommendedAction # <<>>
                /\ ev.recommendedAction \notin NarrativeActions
                /\ \A i \in 1..Len(fired) :
                     ev.recommendedAction # fired[i].recommendedAction
           ELSE IF loc[c].isDeep
           THEN ev.recommendedAction \in NarrativeActions
           ELSE ev.recommendedAction =
                  IF Len(fired) > 0 THEN fired[1].recommendedAction
                  ELSE CallerFallbackAction(c)

\* basic mode: structured data was obtained and a rule fired, whose action
\* is not the one stored
C29_Witness ==
  \E c \in Procs :
    /\ EventStored(c)
    /\ ~loc[c].isDeep
    /\ loc[c].structured.def
    /\ Len(RulesFired(c)) > 0
    /\ LastEventOf(loc[c].vendor).recommendedAction # RulesFired(c)[1].recommendedAction

\* deep mode: structured data was obtained and the generator returned an
\* action of its own
C29_WitnessDeep ==
  \E c \in Procs :
    /\ EventStored(c)
    /\ loc[c].isDeep
    /\ loc[c].structured.def
    /\ loc[c].narrative.kind = "parsed"
    /\ loc[c].narrative.severity = Some("high")

\* no structured data: the firing rule's action is the one stored
C29_WitnessRuleAction ==
  \E c \in Procs :
    /\ EventStored(c)
    /\ ~loc[c].isDeep
    /\ ~loc[c].structured.def
    /\ Len(RulesFired(c)) > 0

\* ---- the first RiskEvent in basic mode
\* the rules in their order: the fields each one compares, and the type and
\* severity it reports when the field was not populated before
RuleTable ==
  <<[fields |-> {"pricing_terms", "fee_structures"}, type |-> "financial",
     severity |-> "medium"],
    [fields |-> {"liability_clauses"}, type |-> "legal", severity |-> "medium"],
    [fields |-> {"termination_terms"}, type |-> "legal", severity |-> "medium"],
    [fields |-> {"indemnification_terms"}, type |-> "legal", severity |-> "medium"],
    [fields |-> {"data_residency_locations"}, type |-> "security", severity |-> "high"],
    [fields |-> {"compliance_references"}, type |-> "security", severity |-> "medium"],
    [fields |-> {"data_retention_policies"}, type |-> "security", severity |-> "medium"],
    [fields |-> {"sla_uptime_commitments"}, type |-> "operational", severity |-> "medium"],
    [fields |-> {"support_response_times"}, type |-> "operational", severity |-> "low"]>>

\* field k of the structured data of cycle c holds a non-blank fact
Populated(c, k) ==
  /\ loc[c].structured.def
  /\ k \in DOMAIN loc[c].structured.val
  /\ \E j \in 1..Len(loc[c].structured.val[k]) :
       Trim(loc[c].structured.val[k][j]) # <<>>

RulePopulated(c, n) == \E k \in RuleTable[n].fields : Populated(c, k)

\* C30: in basic mode the RiskEvent of a first snapshot is operational / low
\* when no field a rule tracks is populated in the extracted data, and else
\* has the type and severity of the first rule, in their order, whose field
\* is populated.
C30_FirstSnapshotRules ==
  \A c \in Procs :
    (EventStored(c) /\ ~loc[c].isDeep /\ ~loc[c].lastSnapshot.def)
    => LET ev == LastEventOf(loc[c].vendor)
       IN  IF \E n \in 1..Len(RuleTable) : RulePopulated(c, n)
           THEN LET first == CHOOSE n \in 1..Len(RuleTable) :
                               /\ RulePopulated(c, n)
                               /\ \A m \in 1..(n - 1) : ~RulePopulated(c, m)
                IN  /\ ev.type = RuleTable[first].type
                    /\ ev.severity = RuleTable[first].severity
           ELSE ev.type = "operational" /\ ev.severity = "low"

\* data residency is the only populated field: security / high
C30_Witness ==
  \E c \in Procs :
    /\ EventStored(c)
    /\ ~loc[c].isDeep
    /\ ~loc[c].lastSnapshot.def
    /\ loc[c].structured = Some(DataResidency)
    /\ LastEventOf(loc[c].vendor).type = "security"
    /\ LastEventOf(loc[c].vendor).severity = "high"

\* data was extracted but no rule tracks its field: operational / low
C30_WitnessUntracked ==
  \E c \in Procs :
    /\ EventStored(c)
    /\ ~loc[c].isDeep
    /\ ~loc[c].lastSnapshot.def
    /\ loc[c].structured = Some(DataEncryption)
    /\ LastEventOf(loc[c].vendor).type = "operational"

\* ---- what the search can influence
\* the text of the iteration of cycle c as it was before the search returned
TextBeforeSearch(c) ==
  IF loc[c].searched = <<>> THEN loc[c].extractedText
  ELSE SubSeq(loc[c].extractedText, 1,
              Len(loc[c].extractedText) - Len(SearchMarker) - Len(loc[c].searched))

\* the text the same iteration has when the search returns s instead
TextWithSearch(c, s) ==
  IF s.success /\ s.markdown # <<>>
  THEN TextBeforeSearch(c) \o SearchMarker \o s.markdown
  ELSE TextBeforeSearch(c)

\* the iteration of cycle c has compared fingerprints with a latest snapshot
FingerprintCompared(c) == loc[c].contentHash.def /\ loc[c].lastSnapshot.def

\* C21: the changed / unchanged decision for a vendor is the same whatever
\* the search returns: from the same latest snapshot and the same pages, every
\* other search outcome gives the decision this iteration took.
C21_SearchIndependentDecision ==
  \A c \in Procs :
    FingerprintCompared(c)
    => \A s \in SearchOutcomes :
         (loc[c].lastSnapshot.val.contentHash = hashContent(TextWithSearch(c, s)))
         <=> (loc[c].lastSnapshot.val.contentHash = loc[c].contentHash.val)

\* the extractor returned data in the iteration of cycle c
DataExtracted(c) ==
  /\ loc[c].extracted.def
  /\ pc[c] \notin {"idle", "load", "boundary", "scrape", "lookup", "crawl", "search",
                    "extract"}

\* the guard's verdict on the extracted data, given the text
GuardAccepts(c, text) ==
  ~looksHallucinated(loc[c].extracted.val.data, loc[c].extracted.val.sourceUrl, text)

\* C22: the structured data kept for a vendor does not depend on what the
\* search returned: for the data the extractor returned, the guard decides
\* as it does on the text without the search results, and as it would with
\* any other search outcome.
C22_SearchIndependentExtraction ==
  \A c \in Procs :
    DataExtracted(c)
    => /\ loc[c].structured.def <=> GuardAccepts(c, TextBeforeSearch(c))
       /\ \A s \in SearchOutcomes \cup {SearchLegalNews} :
            loc[c].structured.def <=> GuardAccepts(c, TextWithSearch(c, s))

=============================================================================
